---- MODULE Spec2Model ----
(***************************************************************************)
(* Roadmap progress rollup and analytics of aura_server.                   *)
(*                                                                         *)
(* The entity store (roadmaps, goals, milestones) is the state; the        *)
(* roadmap controllers are the actions.  Percentages are real numbers in   *)
(* the code; here a percentage p is held as the integer p * PctScale,      *)
(* where PctScale is divisible by every milestone count and every goal     *)
(* count the bounds allow, so every quotient the code forms is exact.      *)
(***************************************************************************)
EXTENDS Integers, Sequences, FiniteSets, TLC

\* ------------------------------------------------------------------ bounds
MaxRoadmaps == 1
MaxGoals == 2
MaxMilestones == 2

RoadmapIds == 1..MaxRoadmaps
GoalIds == 1..MaxGoals
MilestoneIds == 1..MaxMilestones

RECURSIVE Fact(_)
Fact(n) == IF n <= 1 THEN 1 ELSE n * Fact(n - 1)

\* one percent, in the model's integer units
PctScale == Fact(MaxMilestones) * Fact(MaxGoals)

\* ------------------------------------------------------------------ enums
GoalStatus == {"not_started", "in_progress", "completed", "blocked", "abandoned"}
MilestoneStatus == {"not_started", "in_progress", "completed", "overdue", "skipped"}

\* a request body field that is absent
Absent == "absent"

\* the status values the modelled request bodies carry (both schemas accept
\* the whole enum; the rollup tells completed from the rest, and a goal
\* status the rollup never writes from those it does)
BodyGoalStatus == {"completed", Absent}
BodyMilestoneStatus == {"not_started", "completed", Absent}

\* ------------------------------------------------------------------ rows
\* row: "none" (id not yet issued), "live", "gone" (deleted; ids are not reused)
NoRoadmap == [row |-> "none", progressPercentage |-> 0]
NoGoal == [row |-> "none", roadmapId |-> 0, status |-> "not_started",
           completionPercentage |-> 0]
NoMilestone == [row |-> "none", goalId |-> 0, status |-> "not_started"]

VARIABLES
    roadmaps,    \* Roadmap table
    goals,       \* Goal table
    milestones,  \* Milestone table
    lastOp,      \* what the roadmap handler that ran last recomputed
    reqs,        \* requests in flight: each one's position and local variables
    now,         \* the clock, in ticks
    tasks,       \* completed RoadmapTasks of the user, ordered by completedAt
    completions, \* completionDate of the user's completed milestones
    velocity     \* the response of the last request answered

storeVars == <<roadmaps, goals, milestones>>
velVars == <<now, tasks, completions, velocity>>
vars == <<roadmaps, goals, milestones, lastOp, reqs, now, tasks, completions, velocity>>

Live(tbl, id) == tbl[id].row = "live"

\* the id an autoincrement column issues next; 0 when the bound is exhausted
NextId(tbl, ids) ==
    IF \E i \in ids : tbl[i].row = "none"
    THEN CHOOSE i \in ids : tbl[i].row = "none" /\ \A j \in ids : j < i => tbl[j].row # "none"
    ELSE 0

\* prisma.milestone.findMany({ where: { goalId } })
MilestonesOf(ms, g) == {m \in MilestoneIds : Live(ms, m) /\ ms[m].goalId = g}

\* prisma.goal.findMany({ where: { roadmapId } })
GoalsOf(gs, r) == {g \in GoalIds : Live(gs, g) /\ gs[g].roadmapId = r}

\* ------------------------------------------------------- goal.service.js
\* milestones.filter((m) => m.status === 'completed').length
CompletedCount(ms, g) == Cardinality({m \in MilestonesOf(ms, g) : ms[m].status = "completed"})

ComputePercentageHalved(k, n) == (k * 50 * PctScale) \div n
\* (completedMilestones / milestones.length) * 100
ComputePercentage(k, n) == (k * 100 * PctScale) \div n

\* let status = 'not_started'; if (=== 100) 'completed'; else if (> 0) 'in_progress'
DetermineStatus(pct) ==
    IF pct = 100 * PctScale THEN "completed"
    ELSE IF pct > 0 THEN "in_progress"
    ELSE "not_started"

\* the notification test of updateGoalProgress
ShouldNotifyAlways(status, currentStatus) == status = "completed"
ShouldNotify(status, currentStatus) == status = "completed" /\ currentStatus # "completed"

\* the data of the prisma.goal.update in updateGoalProgress, from the counts
\* taken from the milestones it read
ProgressData(k, n) ==
    IF n = 0
    THEN [completionPercentage |-> 0, status |-> "not_started"]
    ELSE [completionPercentage |-> ComputePercentage(k, n),
          status |-> DetermineStatus(ComputePercentage(k, n))]

\* prisma.goal.update({ where: { id: goalId }, data })
WriteProgress(gs, g, data) ==
    [gs EXCEPT ![g].completionPercentage = data.completionPercentage,
               ![g].status = data.status]

\* updateGoalProgress(goalId) run without interruption: the goal table it
\* leaves and whether it calls sendGoalCompletedMessage
UpdateGoalProgress(gs, ms, g) ==
    LET n == Cardinality(MilestonesOf(ms, g))
        data == ProgressData(CompletedCount(ms, g), n)
    IN [goals |-> WriteProgress(gs, g, data),
        notified |-> n > 0 /\ ShouldNotify(data.status, gs[g].status)]

\* ---------------------------------------------------- roadmap.service.js
RECURSIVE SumPct(_, _)
\* goals.reduce((sum, goal) => sum + parseFloat(goal.completionPercentage || 0), 0)
SumPct(gs, S) ==
    IF S = {} THEN 0
    ELSE LET g == CHOOSE x \in S : TRUE IN gs[g].completionPercentage + SumPct(gs, S \ {g})

AverageProgressMax(gs, S) ==
    CHOOSE p \in {gs[g].completionPercentage : g \in S} :
        \A g \in S : gs[g].completionPercentage <= p
\* totalProgress / goals.length
AverageProgress(gs, S) == SumPct(gs, S) \div Cardinality(S)

\* the progressPercentage updateRoadmapProgress computes from the goals it read
RoadmapProgressData(gs, r) ==
    IF GoalsOf(gs, r) = {} THEN 0 ELSE AverageProgress(gs, GoalsOf(gs, r))

UpdateRoadmapProgressIncrement(rs, gs, r) ==
    [rs EXCEPT ![r].progressPercentage = @ + RoadmapProgressData(gs, r)]
\* updateRoadmapProgress(roadmapId) run without interruption
UpdateRoadmapProgress(rs, gs, r) ==
    [rs EXCEPT ![r].progressPercentage = RoadmapProgressData(gs, r)]

\* -------------------------------------------------- milestone.service.js
\* The milestone service is not among the sources; its four writes are
\* modelled from the data model: a new milestone starts not_started,
\* an update applies the validated body, complete sets status completed,
\* delete removes the row.
MsCreate(ms, m, g) == [ms EXCEPT ![m] = [row |-> "live", goalId |-> g, status |-> "not_started"]]
MsUpdate(ms, m, bodyStatus) ==
    IF bodyStatus = Absent THEN ms ELSE [ms EXCEPT ![m].status = bodyStatus]
MsComplete(ms, m) == [ms EXCEPT ![m].status = "completed"]
MsDelete(ms, m) == [ms EXCEPT ![m] = [NoMilestone EXCEPT !.row = "gone"]]

\* rows removed together with their owner (Roadmap owns Goals, Goal owns Milestones)
CascadeGoals(gs, r) ==
    [g \in GoalIds |-> IF Live(gs, g) /\ gs[g].roadmapId = r
                       THEN [NoGoal EXCEPT !.row = "gone"] ELSE gs[g]]
CascadeMilestones(ms, G) ==
    [m \in MilestoneIds |-> IF Live(ms, m) /\ ms[m].goalId \in G
                            THEN [NoMilestone EXCEPT !.row = "gone"] ELSE ms[m]]

\* ------------------------------------------------- requests in flight
NumRequests == 2
Requests == 1..NumRequests

\* pc: the await the request stands before; the other fields are the
\* handler's local variables
IdleRequest == [pc |-> "idle", goalId |-> 0, completed |-> 0, total |-> 0,
                currentStatus |-> "not_started", average |-> 0, notified |-> FALSE]

\* no velocity request answered yet
NoReport == [kind |-> "none"]

\* ------------------------------------------------- roadmap.controller.js
\* lastOp records what the handler that ran last did to the rollup: the goal
\* and the roadmap whose progress it recomputed (0 when it recomputed none)
\* and whether the goal recompute sent the goal-completed notification
Op(g, r, n) == [goalId |-> g, roadmapId |-> r, notified |-> n]
NoRollup == Op(0, 0, FALSE)

Init ==
    /\ roadmaps = [r \in RoadmapIds |-> NoRoadmap]
    /\ goals = [g \in GoalIds |-> NoGoal]
    /\ milestones = [m \in MilestoneIds |-> NoMilestone]
    /\ lastOp = NoRollup
    /\ reqs = [q \in Requests |-> IdleRequest]
    /\ now = 0 /\ tasks = <<>> /\ completions = <<>> /\ velocity = NoReport

\* POST /roadmaps: createRoadmap stores progressPercentage 0
CreateRoadmap ==
    LET r == NextId(roadmaps, RoadmapIds) IN
    /\ r # 0
    /\ roadmaps' = [roadmaps EXCEPT ![r] = [row |-> "live", progressPercentage |-> 0]]
    /\ lastOp' = NoRollup
    /\ UNCHANGED <<reqs, velVars>>
    /\ UNCHANGED <<goals, milestones>>

\* DELETE /roadmaps/:id
DeleteRoadmap(r) ==
    /\ Live(roadmaps, r)
    /\ roadmaps' = [roadmaps EXCEPT ![r] = [NoRoadmap EXCEPT !.row = "gone"]]
    /\ goals' = CascadeGoals(goals, r)
    /\ milestones' = CascadeMilestones(milestones, GoalsOf(goals, r))
    /\ lastOp' = NoRollup
    /\ UNCHANGED <<reqs, velVars>>

\* POST /roadmaps/:roadmapId/goals: goalService.createGoal stores status
\* not_started and completionPercentage 0; the validated body carries no
\* autoGenerateMilestones key, so no milestone is generated
CreateGoal(r) ==
    LET g == NextId(goals, GoalIds) IN
    /\ g # 0
    /\ Live(roadmaps, r)
    /\ goals' = [goals EXCEPT ![g] = [row |-> "live", roadmapId |-> r,
                                      status |-> "not_started", completionPercentage |-> 0]]
    /\ lastOp' = NoRollup
    /\ UNCHANGED <<reqs, velVars>>
    /\ UNCHANGED <<roadmaps, milestones>>

\* goalService.updateGoal(goalId, data): prisma.goal.update with the body
GoalUpdate(gs, g, bodyStatus) ==
    IF bodyStatus = Absent THEN gs ELSE [gs EXCEPT ![g].status = bodyStatus]

\* PATCH /roadmaps/goals/:id with a body accepted by updateGoalSchema
UpdateGoal(g, bodyStatus) ==
    /\ Live(goals, g)
    /\ goals' = GoalUpdate(goals, g, bodyStatus)
    /\ roadmaps' = UpdateRoadmapProgress(roadmaps, goals', goals[g].roadmapId)
    /\ lastOp' = Op(0, goals[g].roadmapId, FALSE)
    /\ UNCHANGED <<reqs, velVars>>
    /\ UNCHANGED milestones

\* DELETE /roadmaps/goals/:id
DeleteGoal(g) ==
    /\ Live(goals, g)
    /\ goals' = [goals EXCEPT ![g] = [NoGoal EXCEPT !.row = "gone"]]
    /\ milestones' = CascadeMilestones(milestones, {g})
    /\ roadmaps' = UpdateRoadmapProgress(roadmaps, goals', goals[g].roadmapId)
    /\ lastOp' = Op(0, goals[g].roadmapId, FALSE)
    /\ UNCHANGED <<reqs, velVars>>

\* POST /roadmaps/goals/:goalId/milestones: the controller returns right
\* after the service call
CreateMilestone(g) ==
    LET m == NextId(milestones, MilestoneIds) IN
    /\ m # 0
    /\ Live(goals, g)
    /\ milestones' = MsCreate(milestones, m, g)
    /\ lastOp' = NoRollup
    /\ UNCHANGED <<reqs, velVars>>
    /\ UNCHANGED <<roadmaps, goals>>

\* the tail shared by updateMilestone, completeMilestone and deleteMilestone:
\* updateGoalProgress(milestone.goalId), getGoalById, updateRoadmapProgress
Rollup(g) ==
    LET res == UpdateGoalProgress(goals, milestones', g) IN
    /\ goals' = res.goals
    /\ roadmaps' = UpdateRoadmapProgress(roadmaps, goals', goals[g].roadmapId)
    /\ lastOp' = Op(g, goals[g].roadmapId, res.notified)
    /\ UNCHANGED <<reqs, velVars>>

\* PATCH /roadmaps/milestones/:id with a body accepted by updateMilestoneSchema
UpdateMilestone(m, bodyStatus) ==
    /\ Live(milestones, m)
    /\ milestones' = MsUpdate(milestones, m, bodyStatus)
    /\ Rollup(milestones[m].goalId)

\* POST /roadmaps/milestones/:id/complete
CompleteMilestone(m) ==
    /\ Live(milestones, m)
    /\ milestones' = MsComplete(milestones, m)
    /\ Rollup(milestones[m].goalId)

\* DELETE /roadmaps/milestones/:id
DeleteMilestone(m) ==
    /\ Live(milestones, m)
    /\ milestones' = MsDelete(milestones, m)
    /\ Rollup(milestones[m].goalId)

Next ==
    \/ CreateRoadmap
    \/ \E r \in RoadmapIds : DeleteRoadmap(r)
    \/ \E r \in RoadmapIds : CreateGoal(r)
    \/ \E g \in GoalIds, s \in BodyGoalStatus : UpdateGoal(g, s)
    \/ \E g \in GoalIds : DeleteGoal(g)
    \/ \E g \in GoalIds : CreateMilestone(g)
    \/ \E m \in MilestoneIds, s \in BodyMilestoneStatus : UpdateMilestone(m, s)
    \/ \E m \in MilestoneIds : CompleteMilestone(m)
    \/ \E m \in MilestoneIds : DeleteMilestone(m)

Spec == Init /\ [][Next]_vars

\* ------------------------------------- concurrent milestone requests
\* Two requests on milestones of one goal, each stepping from await to await.
\* The store starts as a sequence of completed handlers leaves it: every
\* milestone of goal 1 not_started or completed, the rollups current.
ConcGoal == CHOOSE g \in GoalIds : \A h \in GoalIds : g <= h
ConcRoadmap == CHOOSE r \in RoadmapIds : \A x \in RoadmapIds : r <= x

ConcMilestones(st) == [m \in MilestoneIds |-> [row |-> "live", goalId |-> ConcGoal, status |-> st[m]]]
ConcGoals(ms) ==
    UpdateGoalProgress(
        [g \in GoalIds |-> IF g = ConcGoal
                           THEN [row |-> "live", roadmapId |-> ConcRoadmap,
                                 status |-> "not_started", completionPercentage |-> 0]
                           ELSE NoGoal],
        ms, ConcGoal).goals

InitConc ==
    /\ \E st \in [MilestoneIds -> {"not_started", "completed"}] :
          /\ milestones = ConcMilestones(st)
          /\ goals = ConcGoals(milestones)
    /\ roadmaps = UpdateRoadmapProgress(
                      [r \in RoadmapIds |-> IF r = ConcRoadmap
                                            THEN [row |-> "live", progressPercentage |-> 0]
                                            ELSE NoRoadmap],
                      goals, ConcRoadmap)
    /\ lastOp = NoRollup
    /\ reqs = [q \in Requests |-> IdleRequest]
    /\ now = 0 /\ tasks = <<>> /\ completions = <<>> /\ velocity = NoReport

\* the service call that opens the handler has written the milestone
Begun(q, m) ==
    reqs' = [reqs EXCEPT ![q].pc = "findMilestones", ![q].goalId = milestones[m].goalId]

\* completeMilestone: await milestoneService.completeMilestone(id)
BeginComplete(q, m) ==
    /\ reqs[q].pc = "idle"
    /\ Live(milestones, m)
    /\ milestones' = MsComplete(milestones, m)
    /\ Begun(q, m)
    /\ UNCHANGED <<roadmaps, goals, lastOp, velVars>>

\* updateMilestone: await milestoneService.updateMilestone(id, req.body)
BeginUpdate(q, m, bodyStatus) ==
    /\ reqs[q].pc = "idle"
    /\ Live(milestones, m)
    /\ milestones' = MsUpdate(milestones, m, bodyStatus)
    /\ Begun(q, m)
    /\ UNCHANGED <<roadmaps, goals, lastOp, velVars>>

\* deleteMilestone: await getMilestoneById, await milestoneService.deleteMilestone(id)
BeginDelete(q, m) ==
    /\ reqs[q].pc = "idle"
    /\ Live(milestones, m)
    /\ milestones' = MsDelete(milestones, m)
    /\ Begun(q, m)
    /\ UNCHANGED <<roadmaps, goals, lastOp, velVars>>

\* updateGoalProgress: const milestones = await prisma.milestone.findMany(...)
FindMilestones(q) ==
    /\ reqs[q].pc = "findMilestones"
    /\ reqs' = [reqs EXCEPT
          ![q].completed = CompletedCount(milestones, reqs[q].goalId),
          ![q].total = Cardinality(MilestonesOf(milestones, reqs[q].goalId)),
          ![q].pc = IF MilestonesOf(milestones, reqs[q].goalId) = {}
                    THEN "updateGoal" ELSE "findGoal"]
    /\ UNCHANGED <<storeVars, lastOp, velVars>>

\* updateGoalProgress: const currentGoal = await prisma.goal.findUnique(...)
FindGoal(q) ==
    /\ reqs[q].pc = "findGoal"
    /\ reqs' = [reqs EXCEPT ![q].currentStatus = goals[reqs[q].goalId].status,
                            ![q].pc = "updateGoal"]
    /\ UNCHANGED <<storeVars, lastOp, velVars>>

\* updateGoalProgress: await prisma.goal.update(...), then the notification test
UpdateGoalRow(q) ==
    LET data == ProgressData(reqs[q].completed, reqs[q].total) IN
    /\ reqs[q].pc = "updateGoal"
    /\ goals' = WriteProgress(goals, reqs[q].goalId, data)
    /\ reqs' = [reqs EXCEPT
          ![q].notified = reqs[q].total > 0 /\ ShouldNotify(data.status, reqs[q].currentStatus),
          ![q].pc = "getGoal"]
    /\ UNCHANGED <<roadmaps, milestones, lastOp, velVars>>

\* the handler: const goal = await goalService.getGoalById(milestone.goalId)
GetGoal(q) ==
    /\ reqs[q].pc = "getGoal"
    /\ reqs' = [reqs EXCEPT ![q].pc = "findGoals"]
    /\ UNCHANGED <<storeVars, lastOp, velVars>>

\* updateRoadmapProgress: const goals = await prisma.goal.findMany(...)
FindGoals(q) ==
    /\ reqs[q].pc = "findGoals"
    /\ reqs' = [reqs EXCEPT
          ![q].average = RoadmapProgressData(goals, goals[reqs[q].goalId].roadmapId),
          ![q].pc = "updateRoadmap"]
    /\ UNCHANGED <<storeVars, lastOp, velVars>>

\* updateRoadmapProgress: await prisma.roadmap.update(...); the handler responds
UpdateRoadmapRow(q) ==
    /\ reqs[q].pc = "updateRoadmap"
    /\ roadmaps' = [roadmaps EXCEPT
          ![goals[reqs[q].goalId].roadmapId].progressPercentage = reqs[q].average]
    /\ reqs' = [reqs EXCEPT ![q].pc = "done"]
    /\ UNCHANGED <<goals, milestones, lastOp, velVars>>

NextConc ==
    \/ \E q \in Requests, m \in MilestoneIds : BeginComplete(q, m)
    \/ \E q \in Requests, m \in MilestoneIds, s \in BodyMilestoneStatus : BeginUpdate(q, m, s)
    \/ \E q \in Requests, m \in MilestoneIds : BeginDelete(q, m)
    \/ \E q \in Requests : FindMilestones(q)
    \/ \E q \in Requests : FindGoal(q)
    \/ \E q \in Requests : UpdateGoalRow(q)
    \/ \E q \in Requests : GetGoal(q)
    \/ \E q \in Requests : FindGoals(q)
    \/ \E q \in Requests : UpdateRoadmapRow(q)

SpecConc == InitConc /\ [][NextConc]_vars

\* ------------------------------------------------- analytics.service.js
\* Time is counted in ticks, TicksPerDay to the day; the clock reads a tick
\* of day 0 and earlier days are negative.
TicksPerDay == 2
MaxTasks == 2
MaxCompletions == 1

\* days before today on which the modelled data set has completions
CompletionAges == {0, 7, 14}
\* estimatedDuration values, in minutes (0 stands for a null duration)
Durations == {0, 90}

\* dayjs(t).startOf('day'), .endOf('day'), .subtract(d, 'days')
StartOfDay(t) == (t \div TicksPerDay) * TicksPerDay
EndOfDay(t) == StartOfDay(t) + TicksPerDay - 1
SubtractDays(t, d) == t - d * TicksPerDay

\* a JavaScript number that is a quotient: den = 0 is the NaN of 0 / 0
Quot(a, b) == [num |-> a, den |-> b]
IsNaN(x) == x.den = 0
\* x / k for an integer k
QuotDiv(x, k) == Quot(x.num, x.den * k)
\* a > b and a < b, both false when either side is NaN
QuotGt(a, b) == ~IsNaN(a) /\ ~IsNaN(b) /\ a.num * b.den > b.num * a.den
QuotLt(a, b) == QuotGt(b, a)
QuotEq(a, b) == ~IsNaN(a) /\ ~IsNaN(b) /\ a.num * b.den = b.num * a.den
\* parseFloat(x.toFixed(2)): hundredths, half rounded up; NaN stays NaN
ToFixed2(x) ==
    IF IsNaN(x) THEN Quot(0, 0)
    ELSE Quot((x.num * 200 + x.den) \div (2 * x.den), 100)

RECURSIVE SumField(_, _)
\* list.reduce((sum, x) => sum + x[field], 0)
SumField(list, field) ==
    IF list = <<>> THEN 0 ELSE Head(list)[field] + SumField(Tail(list), field)

\* the rows of a list whose timestamp field lies in [from, to]
Within(list, field, from, to) ==
    SelectSeq(list, LAMBDA x : x[field] >= from /\ x[field] <= to)

\* Math.ceil(days / 7) for a whole number of days
WeekCount(days) == (days + 6) \div 7

\* weekStart and weekEnd of the bucket built in iteration i = 0, 1, ...
WeekStart(t, i) == StartOfDay(SubtractDays(t, (i + 1) * 7))
WeekEnd(t, i) == EndOfDay(SubtractDays(t, i * 7))

\* the object pushed on weeklyData in iteration i (totalHours kept in minutes)
WeekBucket(t, i, completedTasks, completedMilestones) ==
    LET weekTasks == Within(completedTasks, "completedAt", WeekStart(t, i), WeekEnd(t, i))
        weekMilestones ==
            Within(completedMilestones, "completionDate", WeekStart(t, i), WeekEnd(t, i))
    IN [weekStart |-> WeekStart(t, i), weekEnd |-> WeekEnd(t, i),
        tasksCompleted |-> Len(weekTasks),
        milestonesCompleted |-> Len(weekMilestones),
        totalMinutes |-> SumField(weekTasks, "estimatedDuration")]

Reverse(list) == [i \in 1..Len(list) |-> list[Len(list) + 1 - i]]

TrendOfFlipped(firstHalfAvg, secondHalfAvg) ==
    IF QuotGt(secondHalfAvg, firstHalfAvg) THEN "decreasing"
    ELSE IF QuotLt(secondHalfAvg, firstHalfAvg) THEN "increasing"
    ELSE "stable"
\* the trend test on the two half averages
TrendOf(firstHalfAvg, secondHalfAvg) ==
    IF QuotGt(secondHalfAvg, firstHalfAvg) THEN "increasing"
    ELSE IF QuotLt(secondHalfAvg, firstHalfAvg) THEN "decreasing"
    ELSE "stable"

\* calculateVelocity(userId, days) at clock t over the user's completed tasks
\* and milestones; divisors lists the denominators it divides by, exact the
\* averages before toFixed
CalculateVelocity(t, days, allTasks, allCompletions) ==
    LET startDate == StartOfDay(SubtractDays(t, days))
        endDate == EndOfDay(t)
        completedTasks == Within(allTasks, "completedAt", startDate, endDate)
        completedMilestones == Within(allCompletions, "completionDate", startDate, endDate)
        weeklyData == [i \in 1..WeekCount(days) |->
                          WeekBucket(t, i - 1, completedTasks, completedMilestones)]
        n == Len(weeklyData)
        avgTasksPerWeek == Quot(SumField(weeklyData, "tasksCompleted"), n)
        avgMilestonesPerWeek == Quot(SumField(weeklyData, "milestonesCompleted"), n)
        avgHoursPerWeek == Quot(SumField(weeklyData, "totalMinutes"), 60 * n)
        halfPoint == n \div 2
        firstHalfAvg ==
            Quot(SumField(SubSeq(weeklyData, 1, halfPoint), "tasksCompleted"), halfPoint)
        secondHalfAvg ==
            Quot(SumField(SubSeq(weeklyData, halfPoint + 1, n), "tasksCompleted"),
                 n - halfPoint)
    IN [kind |-> "ok",
        days |-> days,
        totals |-> [tasksCompleted |-> Len(completedTasks),
                    milestonesCompleted |-> Len(completedMilestones),
                    totalHours |-> Quot(SumField(completedTasks, "estimatedDuration"), 60)],
        averages |-> [tasksPerWeek |-> ToFixed2(avgTasksPerWeek),
                      milestonesPerWeek |-> ToFixed2(avgMilestonesPerWeek),
                      hoursPerWeek |-> ToFixed2(avgHoursPerWeek),
                      tasksPerDay |-> ToFixed2(QuotDiv(avgTasksPerWeek, 7))],
        exact |-> [tasksPerWeek |-> avgTasksPerWeek,
                   milestonesPerWeek |-> avgMilestonesPerWeek,
                   hoursPerWeek |-> avgHoursPerWeek,
                   tasksPerDay |-> QuotDiv(avgTasksPerWeek, 7)],
        divisors |-> <<n, halfPoint, n - halfPoint>>,
        trend |-> TrendOf(firstHalfAvg, secondHalfAvg),
        weeklyBreakdown |-> Reverse(weeklyData)]

\* a value that is null
Null == [null |-> TRUE]

\* dataPoints >= 50 high, >= 20 medium, else low
ConfidenceOf(dataPoints) ==
    IF dataPoints >= 50 THEN "high" ELSE IF dataPoints >= 20 THEN "medium" ELSE "low"

\* the test that guards the division by hoursPerWeek
NoVelocityNever(hoursPerWeek) == FALSE
NoVelocity(hoursPerWeek) == QuotEq(hoursPerWeek, Quot(0, 1))

\* predictRoadmapCompletion(roadmapId) at clock t for a roadmap that exists,
\* whose incomplete milestones' estimatedEffortHours add up to remainingHours;
\* divided tells whether remainingHours / hoursPerWeek was evaluated
PredictRoadmapCompletion(t, remainingHours, allTasks, allCompletions) ==
    LET report == CalculateVelocity(t, 30, allTasks, allCompletions)
        hoursPerWeek == report.averages.hoursPerWeek
        weeksNeeded == Quot(remainingHours * hoursPerWeek.den, hoursPerWeek.num)
    IN IF NoVelocity(hoursPerWeek)
       THEN [kind |-> "prediction", predictedCompletionDate |-> Null,
             confidence |-> "low", remainingHours |-> remainingHours,
             estimatedWeeks |-> Null, hoursPerWeek |-> hoursPerWeek,
             dataPoints |-> report.totals.tasksCompleted, divided |-> FALSE]
       ELSE [kind |-> "prediction", predictedCompletionDate |-> [weeksFromNow |-> weeksNeeded],
             confidence |-> ConfidenceOf(report.totals.tasksCompleted),
             remainingHours |-> remainingHours,
             estimatedWeeks |-> weeksNeeded, hoursPerWeek |-> hoursPerWeek,
             dataPoints |-> report.totals.tasksCompleted, divided |-> TRUE]

\* ---------------------------------------------- analytics.controller.js
\* sums of estimatedEffortHours over the incomplete milestones of the roadmap asked about
RemainingHours == {0, 8}

\* the values of ?days= the modelled requests carry (0: missing or not a number)
QueryDays == {0, 3, 7, 14, 400}

\* parseInt(req.query.days) || 30
ParseDays(q) == IF q = 0 THEN 30 ELSE q

\* every sequence over S of length at most n, in nondecreasing order of key
SortedSeqs(S, n, key) ==
    {sq \in UNION {[1..k -> S] : k \in 0..n} :
        \A i \in 1..(Len(sq) - 1) :
            \/ sq[i][key] < sq[i + 1][key]
            \/ sq[i][key] = sq[i + 1][key] /\ sq[i].rank <= sq[i + 1].rank}

\* the first and the last tick of a day
DayEnds == {0, TicksPerDay - 1}
Stamps == {SubtractDays(k, a) : k \in DayEnds, a \in CompletionAges}
TaskRows == {[completedAt |-> c, estimatedDuration |-> d, rank |-> d] : c \in Stamps, d \in Durations}
CompletionRows == {[completionDate |-> c, rank |-> 0] : c \in Stamps}

\* the store as earlier requests left it: the user's completed roadmap tasks
\* (findMany orders them by completedAt) and completed milestones
InitVel ==
    /\ now \in DayEnds
    /\ tasks \in SortedSeqs(TaskRows, MaxTasks, "completedAt")
    /\ completions \in SortedSeqs(CompletionRows, MaxCompletions, "completionDate")
    /\ velocity = NoReport
    /\ roadmaps = [r \in RoadmapIds |-> NoRoadmap]
    /\ goals = [g \in GoalIds |-> NoGoal]
    /\ milestones = [m \in MilestoneIds |-> NoMilestone]
    /\ lastOp = NoRollup
    /\ reqs = [q \in Requests |-> IdleRequest]

\* GET /api/analytics/velocity?days=q answered with the report
GetVelocity(q) ==
    /\ ~(ParseDays(q) < 7 \/ ParseDays(q) > 365)
    /\ velocity' = CalculateVelocity(now, ParseDays(q), tasks, completions)
    /\ UNCHANGED <<storeVars, lastOp, reqs, now, tasks, completions>>

\* GET /api/analytics/velocity?days=q answered 400
RejectVelocity(q) ==
    /\ ParseDays(q) < 7 \/ ParseDays(q) > 365
    /\ velocity' = [kind |-> "rejected"]
    /\ UNCHANGED <<storeVars, lastOp, reqs, now, tasks, completions>>

\* GET /api/analytics/predict/:roadmapId for a roadmap that exists
GetPrediction(remainingHours) ==
    /\ velocity' = PredictRoadmapCompletion(now, remainingHours, tasks, completions)
    /\ UNCHANGED <<storeVars, lastOp, reqs, now, tasks, completions>>

NextVel ==
    \/ \E q \in QueryDays : GetVelocity(q)
    \/ \E q \in QueryDays : RejectVelocity(q)
    \/ \E h \in RemainingHours : GetPrediction(h)

SpecVel == InitVel /\ [][NextVel]_vars

\* ------------------------------------------------- getStreak
\* the iterations of the current-streak loop
StreakLoopDays == 365
\* the days before today on which the short histories have completions
MaxStreakDays == 4

\* dayjs(t).format('YYYY-MM-DD'): the calendar day of an instant
DayOf(t) == t \div TicksPerDay

\* [...new Set(completedTasks.map(...format('YYYY-MM-DD')))]: the distinct
\* days; the query orders the tasks by completedAt desc, so the array holds
\* them in descending order
UniqueDates(completedTasks) ==
    {DayOf(completedTasks[i].completedAt) : i \in 1..Len(completedTasks)}

\* the value of currentStreak when the loop ends: it counts today, today-1,
\* ... while the day is in uniqueDates, for at most StreakLoopDays iterations
CurrentStreak(today, dates) ==
    CHOOSE k \in 0..StreakLoopDays :
        /\ \A i \in 0..(k - 1) : today - i \in dates
        /\ k = StreakLoopDays \/ today - k \notin dates

\* the value of tempStreak after the longest-streak loop has visited day d:
\* the count of the days d, d+1, ... up to the first day missing from dates
TempStreak(dates, d) ==
    LET gaps == {e + 1 : e \in dates} \ dates IN
    (CHOOSE g \in gaps : g > d /\ \A h \in gaps : h > d => g <= h) - d

MaxOf(S) == CHOOSE x \in S : \A y \in S : y <= x

LongestStreakNoTail(dates, currentStreak) ==
    MaxOf({TempStreak(dates, d) : d \in {e \in dates : e + 1 \in dates}} \cup {0, currentStreak})
\* longestStreak: the largest tempStreak seen on a day that follows its
\* predecessor, then Math.max with the last tempStreak and currentStreak
LongestStreak(dates, currentStreak) ==
    MaxOf({TempStreak(dates, d) : d \in {e \in dates : e + 1 \in dates}}
          \cup {0, TempStreak(dates, CHOOSE d \in dates : \A e \in dates : d <= e), currentStreak})

\* the object getStreak returns once the distinct days are known
StreakOver(today, dates, completedTasks) ==
    [kind |-> "streak",
     currentStreak |-> CurrentStreak(today, dates),
     longestStreak |-> LongestStreak(dates, CurrentStreak(today, dates)),
     lastActiveDate |-> completedTasks[1].completedAt,
     totalActiveDays |-> Cardinality(dates)]

\* getStreak(userId) at clock t over the user's completed roadmap tasks
GetStreak(t, allTasks) ==
    LET completedTasks == Reverse(allTasks) IN
    IF Len(completedTasks) = 0
    THEN [kind |-> "streak", currentStreak |-> 0, longestStreak |-> 0,
          lastActiveDate |-> Null, totalActiveDays |-> Null]
    ELSE CHOOSE r \in {StreakOver(DayOf(StartOfDay(t)), dates, completedTasks) :
                           dates \in {UniqueDates(completedTasks)}} : TRUE

\* a completed task of the streak histories
StreakRow(c) == [completedAt |-> c, estimatedDuration |-> 0, rank |-> 0]

RECURSIVE AscendingRows(_)
\* one completed task per instant of S, ordered by completedAt
AscendingRows(S) ==
    IF S = {} THEN <<>>
    ELSE Append(AscendingRows(S \ {MaxOf(S)}), StreakRow(MaxOf(S)))

\* one completed task a day on n consecutive days, the last of them day `last`
DailyRows(last, n) == [i \in 1..n |-> StreakRow((last - (n - i)) * TicksPerDay)]

\* short histories, and unbroken runs about as long as the loop is
RecentStamps == {SubtractDays(k, a) : k \in DayEnds, a \in 0..(MaxStreakDays - 1)}
LongRuns == {StreakLoopDays - 1, StreakLoopDays, StreakLoopDays + 1}
StreakHistories ==
    {AscendingRows(S) : S \in SUBSET RecentStamps}
        \cup {DailyRows(last, n) : last \in {0 - 1, 0}, n \in LongRuns}

InitStreak ==
    /\ now \in DayEnds
    /\ tasks \in StreakHistories
    /\ completions = <<>>
    /\ velocity = NoReport
    /\ roadmaps = [r \in RoadmapIds |-> NoRoadmap]
    /\ goals = [g \in GoalIds |-> NoGoal]
    /\ milestones = [m \in MilestoneIds |-> NoMilestone]
    /\ lastOp = NoRollup
    /\ reqs = [q \in Requests |-> IdleRequest]

\* GET /api/analytics/streak
GetStreakInfo ==
    /\ velocity' = GetStreak(now, tasks)
    /\ UNCHANGED <<storeVars, lastOp, reqs, now, tasks, completions>>

NextStreak == GetStreakInfo

SpecStreak == InitStreak /\ [][NextStreak]_vars

\* ------------------------------------------------- detectBottlenecks
\* The store here carries the columns detectBottlenecks reads besides those
\* of the rollup: userId of a roadmap, dueDate of a milestone.
MaxOverdue == 6
MaxStruggling == 4
Users == {1, 2}
\* the value of a property the object lacks; no user has this id
Undefined == 0

\* where: { userId }: a filter whose value is undefined is left out of the query
UserIdIs(rs, r, u) == u = Undefined \/ rs[r].userId = u

\* a.diff(b, 'days'): whole days from b to a, truncated toward zero
DiffDays(a, b) ==
    IF a >= b THEN (a - b) \div TicksPerDay ELSE 0 - ((b - a) \div TicksPerDay)

\* the roadmap of milestone m, by goal: { roadmap: ... }
MilestoneRoadmap(gs, ms, m) == gs[ms[m].goalId].roadmapId

IsOverdueAnyStatus(ms, m, t) == ms[m].dueDate < t
\* status: { in: ['not_started', 'in_progress'] }, dueDate: { lt: now }
IsOverdue(ms, m, t) ==
    /\ ms[m].status \in {"not_started", "in_progress"}
    /\ ms[m].dueDate < t

RECURSIVE OrderByDueDate(_, _)
\* orderBy: { dueDate: 'asc' }
OrderByDueDate(ms, S) ==
    IF S = {} THEN <<>>
    ELSE LET m == CHOOSE x \in S : \A y \in S : ms[x].dueDate <= ms[y].dueDate
         IN <<m>> \o OrderByDueDate(ms, S \ {m})

\* the overdueMilestones query of user u at instant t
OverdueQuery(rs, gs, ms, u, t) ==
    OrderByDueDate(ms, {m \in DOMAIN ms :
        UserIdIs(rs, MilestoneRoadmap(gs, ms, m), u) /\ IsOverdue(ms, m, t)})

\* the entry of the goals.map(...) for goal g
GoalRate(ms, g) ==
    LET mine == {m \in DOMAIN ms : ms[m].goalId = g}
        total == Cardinality(mine)
        completed == Cardinality({m \in mine : ms[m].status = "completed"})
    IN [goalId |-> g, totalMilestones |-> total, completedMilestones |-> completed,
        completionRate |-> IF total > 0 THEN ToFixed2(Quot(completed * 100, total))
                           ELSE Quot(0, 1)]

\* .filter((g) => g.totalMilestones >= 3 && g.completionRate < 30)
IsStruggling(rate) == rate.totalMilestones >= 3 /\ QuotLt(rate.completionRate, Quot(30, 1))

\* the goals of user u whose status is not completed, mapped and filtered
\* (their order by completionRate is left out)
StrugglingGoals(rs, gs, ms, u) ==
    {GoalRate(ms, g) : g \in {h \in DOMAIN gs :
        /\ UserIdIs(rs, gs[h].roadmapId, u)
        /\ gs[h].status # "completed"
        /\ IsStruggling(GoalRate(ms, h))}}

\* categoryStats rows with completionRate < 50
Underperforming(categoryStats) ==
    SelectSeq(categoryStats,
              LAMBDA c : QuotLt(ToFixed2(Quot(c.completed_tasks * 100, c.total_tasks)), Quot(50, 1)))

SeverityOfAtLeast(overdue, struggling) ==
    IF overdue >= 5 \/ struggling >= 3 THEN "high" ELSE IF overdue >= 2 THEN "medium" ELSE "low"
\* summary.severity
SeverityOf(overdue, struggling) ==
    IF overdue > 5 \/ struggling > 3 THEN "high" ELSE IF overdue > 2 THEN "medium" ELSE "low"

\* detectBottlenecks(userId) at instant t, the category query answering categoryStats
DetectBottlenecks(rs, gs, ms, u, t, categoryStats) ==
    LET overdueMilestones == OverdueQuery(rs, gs, ms, u, t)
        strugglingGoals == StrugglingGoals(rs, gs, ms, u)
        underperformingCategories == Underperforming(categoryStats)
    IN [kind |-> "bottlenecks",
        userId |-> u,
        overdueMilestones |->
            [i \in 1..Len(overdueMilestones) |->
                [milestoneId |-> overdueMilestones[i],
                 dueDate |-> ms[overdueMilestones[i]].dueDate,
                 daysOverdue |-> DiffDays(t, ms[overdueMilestones[i]].dueDate)]],
        strugglingGoals |-> strugglingGoals,
        underperformingCategories |-> underperformingCategories,
        summary |-> [totalOverdue |-> Len(overdueMilestones),
                     strugglingGoalsCount |-> Cardinality(strugglingGoals),
                     underperformingCategoriesCount |-> Len(underperformingCategories),
                     severity |-> SeverityOf(Len(overdueMilestones),
                                             Cardinality(strugglingGoals))]]

\* results of the category query: categories with at least 5 tasks
CategoryStats ==
    {<<>>,
     <<[total_tasks |-> 5, completed_tasks |-> 5]>>,
     <<[total_tasks |-> 5, completed_tasks |-> 0]>>,
     <<[total_tasks |-> 6, completed_tasks |-> 1], [total_tasks |-> 5, completed_tasks |-> 2]>>}

\* The store of the bottleneck requests, as earlier requests left it.  User 1
\* has one roadmap with: goal 1, holding o past-due open milestones (not
\* started and in progress in turn, the later id due earlier) and as many
\* completed ones; goal 2, holding milestones around the edges of the query
\* (due at tick 0, due tomorrow, past due but overdue, skipped or completed);
\* and sg goals of three not_started milestones due tomorrow.  User 2 has one
\* roadmap with one goal of three past-due not_started milestones.
BottleMilestoneRows(o, sg) ==
    [j \in 1..o |-> [row |-> "live", goalId |-> 1,
                      status |-> IF j % 2 = 1 THEN "not_started" ELSE "in_progress",
                      dueDate |-> 0 - j]]
    \o [j \in 1..o |-> [row |-> "live", goalId |-> 1, status |-> "completed",
                         dueDate |-> 0 - j]]
    \o << [row |-> "live", goalId |-> 2, status |-> "not_started", dueDate |-> 0],
          [row |-> "live", goalId |-> 2, status |-> "in_progress", dueDate |-> TicksPerDay],
          [row |-> "live", goalId |-> 2, status |-> "overdue", dueDate |-> 0 - TicksPerDay],
          [row |-> "live", goalId |-> 2, status |-> "skipped", dueDate |-> 0 - TicksPerDay],
          [row |-> "live", goalId |-> 2, status |-> "completed", dueDate |-> 0 - TicksPerDay],
          [row |-> "live", goalId |-> 2, status |-> "completed", dueDate |-> 0 - TicksPerDay] >>
    \o [j \in 1..(3 * sg) |-> [row |-> "live", goalId |-> 3 + ((j - 1) \div 3),
                                status |-> "not_started", dueDate |-> TicksPerDay]]
    \o [j \in 1..3 |-> [row |-> "live", goalId |-> 3 + sg, status |-> "not_started",
                         dueDate |-> 0 - (j * TicksPerDay)]]

\* every goal carries the percentage and status updateGoalProgress stores
\* for its milestones
BottleGoalRows(ms, sg) ==
    [g \in 1..(3 + sg) |->
        LET data == ProgressData(
                        Cardinality({m \in DOMAIN ms : ms[m].goalId = g /\ ms[m].status = "completed"}),
                        Cardinality({m \in DOMAIN ms : ms[m].goalId = g}))
        IN [row |-> "live", roadmapId |-> IF g = 3 + sg THEN 2 ELSE 1,
            status |-> data.status, completionPercentage |-> data.completionPercentage]]

BottleRoadmapRows == [r \in Users |-> [row |-> "live", userId |-> r, progressPercentage |-> 0]]

InitBottle ==
    /\ now \in DayEnds
    /\ \E o \in 0..MaxOverdue, sg \in 0..MaxStruggling :
          /\ milestones = BottleMilestoneRows(o, sg)
          /\ goals = BottleGoalRows(milestones, sg)
    /\ roadmaps = BottleRoadmapRows
    /\ tasks = <<>> /\ completions = <<>> /\ velocity = NoReport
    /\ lastOp = NoRollup
    /\ reqs = [q \in Requests |-> IdleRequest]

\* authenticate: req.user = { id: decoded.id }
Authenticate(u) == [id |-> u]

\* GET /api/analytics/bottlenecks by user u: the controller passes
\* req.user.userId, a property authenticate does not set
GetBottlenecks(u, categoryStats) ==
    LET user == Authenticate(u)
        userId == IF "userId" \in DOMAIN user THEN user.userId ELSE Undefined
    IN /\ velocity' = DetectBottlenecks(roadmaps, goals, milestones, userId, now, categoryStats)
       /\ UNCHANGED <<storeVars, lastOp, reqs, now, tasks, completions>>

\* generateWeeklyCoaching(userId), called by the weekly job with user.id:
\* its call of detectBottlenecks
CoachingBottlenecks(u, categoryStats) ==
    /\ velocity' = DetectBottlenecks(roadmaps, goals, milestones, u, now, categoryStats)
    /\ UNCHANGED <<storeVars, lastOp, reqs, now, tasks, completions>>

NextBottle ==
    \/ \E u \in Users, c \in CategoryStats : GetBottlenecks(u, c)
    \/ \E u \in Users, c \in CategoryStats : CoachingBottlenecks(u, c)

SpecBottle == InitBottle /\ [][NextBottle]_vars

\* ------------------------------------------------- ownership checks
\* Requests of the two users on each other's entities.  Roadmap u belongs to
\* user u; the response of the last request is kept in velocity, with the
\* owner of the entity the request addressed (0 when there is none).
TaskIds == 1..MaxTasks
NoTask == [row |-> "none", roadmapId |-> 0, milestoneId |-> 0, taskId |-> 0]

Found(tbl, id) == id \in DOMAIN tbl /\ Live(tbl, id)

\* the ids a request can name: those of the table and one past them
Named(tbl) == DOMAIN tbl \cup {Cardinality(DOMAIN tbl) + 1}

RoadmapOwner(rs, r) == IF Found(rs, r) THEN rs[r].userId ELSE 0
GoalOwner(st, g) == IF Found(st.goals, g) THEN RoadmapOwner(st.roadmaps, st.goals[g].roadmapId) ELSE 0
MilestoneOwner(st, m) ==
    IF Found(st.milestones, m) THEN GoalOwner(st, st.milestones[m].goalId) ELSE 0
TaskOwner(st, t) == IF Found(st.tasks, t) THEN RoadmapOwner(st.roadmaps, st.tasks[t].roadmapId) ELSE 0

Store == [roadmaps |-> roadmaps, goals |-> goals, milestones |-> milestones, tasks |-> tasks]

\* ok(res, data) answers with res.json, so with status 200 whatever third
\* argument the controller gives it; fail(res, message, status)
Ok(op, u, id, owner) ==
    [kind |-> "access", op |-> op, userId |-> u, id |-> id, owner |-> owner,
     ok |-> TRUE, status |-> 200, error |-> ""]
Fail(op, u, id, owner, message, status) ==
    [kind |-> "access", op |-> op, userId |-> u, id |-> id, owner |-> owner,
     ok |-> FALSE, status |-> status, error |-> message]

\* if (!roadmap || roadmap.userId !== userId) throw new Error('Roadmap not found')
RoadmapDeniedNever(rs, r, u) == FALSE
RoadmapDenied(rs, r, u) == ~Found(rs, r) \/ rs[r].userId # u

\* GET /roadmaps/:id
GetRoadmapByIdAs(st, u, r) ==
    [store |-> st,
     response |-> IF RoadmapDenied(st.roadmaps, r, u)
                  THEN Fail("getRoadmapById", u, r, RoadmapOwner(st.roadmaps, r), "Roadmap not found", 404)
                  ELSE Ok("getRoadmapById", u, r, RoadmapOwner(st.roadmaps, r))]

\* DELETE /roadmaps/:id
DeleteRoadmapAs(st, u, r) ==
    IF RoadmapDenied(st.roadmaps, r, u)
    THEN [store |-> st,
          response |-> Fail("deleteRoadmap", u, r, RoadmapOwner(st.roadmaps, r), "Roadmap not found", 400)]
    ELSE [store |-> [roadmaps |-> [st.roadmaps EXCEPT ![r].row = "gone"],
                     goals |-> CascadeGoals(st.goals, r),
                     milestones |-> CascadeMilestones(st.milestones, GoalsOf(st.goals, r)),
                     tasks |-> [t \in DOMAIN st.tasks |->
                                   IF Live(st.tasks, t) /\ st.tasks[t].roadmapId = r
                                   THEN [NoTask EXCEPT !.row = "gone"] ELSE st.tasks[t]]],
          response |-> Ok("deleteRoadmap", u, r, RoadmapOwner(st.roadmaps, r))]

\* GET /roadmaps/:id/stats: getRoadmapStats(roadmapId) counts the rows of the
\* roadmap, whoever asks and whether or not the roadmap exists
GetRoadmapStatsAs(st, u, r) ==
    [store |-> st, response |-> Ok("getRoadmapStats", u, r, RoadmapOwner(st.roadmaps, r))]

\* GET /roadmaps/goals/:id: getGoalById(goalId) throws 'Goal not found'
GetGoalByIdAs(st, u, g) ==
    [store |-> st,
     response |-> IF ~Found(st.goals, g)
                  THEN Fail("getGoalById", u, g, 0, "Goal not found", 404)
                  ELSE Ok("getGoalById", u, g, GoalOwner(st, g))]

\* POST /roadmaps/:roadmapId/goals: prisma.goal.create fails on the foreign
\* key when the roadmap does not exist
CreateGoalAs(st, u, r) ==
    LET g == NextId(st.goals, GoalIds) IN
    IF ~Found(st.roadmaps, r)
    THEN [store |-> st,
          response |-> Fail("createGoal", u, r, 0, "Foreign key constraint failed", 400)]
    ELSE [store |-> [st EXCEPT !.goals[g] = [row |-> "live", roadmapId |-> r,
                                             status |-> "not_started",
                                             completionPercentage |-> 0]],
          response |-> Ok("createGoal", u, r, RoadmapOwner(st.roadmaps, r))]

\* PATCH /roadmaps/goals/:id
UpdateGoalAs(st, u, g, bodyStatus) ==
    IF ~Found(st.goals, g)
    THEN [store |-> st, response |-> Fail("updateGoal", u, g, 0, "Goal not found", 400)]
    ELSE LET gs == GoalUpdate(st.goals, g, bodyStatus) IN
         [store |-> [st EXCEPT !.goals = gs,
                               !.roadmaps = UpdateRoadmapProgress(st.roadmaps, gs, st.goals[g].roadmapId)],
          response |-> Ok("updateGoal", u, g, GoalOwner(st, g))]

\* DELETE /roadmaps/goals/:id
DeleteGoalAs(st, u, g) ==
    IF ~Found(st.goals, g)
    THEN [store |-> st, response |-> Fail("deleteGoal", u, g, 0, "Goal not found", 400)]
    ELSE LET gs == [st.goals EXCEPT ![g] = [NoGoal EXCEPT !.row = "gone"]] IN
         [store |-> [st EXCEPT !.goals = gs,
                               !.milestones = CascadeMilestones(st.milestones, {g}),
                               !.roadmaps = UpdateRoadmapProgress(st.roadmaps, gs, st.goals[g].roadmapId)],
          response |-> Ok("deleteGoal", u, g, GoalOwner(st, g))]

\* the failure of the milestone service for an id without a row
MilestoneNotFound == "Milestone not found"

\* POST /roadmaps/milestones/:id/complete
CompleteMilestoneAs(st, u, m) ==
    IF ~Found(st.milestones, m)
    THEN [store |-> st, response |-> Fail("completeMilestone", u, m, 0, MilestoneNotFound, 400)]
    ELSE LET ms == MsComplete(st.milestones, m)
             g == st.milestones[m].goalId
             gs == UpdateGoalProgress(st.goals, ms, g).goals
         IN [store |-> [st EXCEPT !.milestones = ms,
                                  !.goals = gs,
                                  !.roadmaps = UpdateRoadmapProgress(st.roadmaps, gs, st.goals[g].roadmapId)],
             response |-> Ok("completeMilestone", u, m, MilestoneOwner(st, m))]

\* GET /analytics/predict/:roadmapId: predictRoadmapCompletion(roadmapId)
\* throws 'Roadmap not found' only when no row has the id
GetPredictionAs(st, u, r) ==
    [store |-> st,
     response |-> IF ~Found(st.roadmaps, r)
                  THEN Fail("getPrediction", u, r, 0, "Roadmap not found", 500)
                  ELSE Ok("getPrediction", u, r, RoadmapOwner(st.roadmaps, r))]

\* POST /analytics/suggest/milestones/:goalId: suggestMilestones(goalId); its
\* catch block names goal, which is declared inside the try block, so every
\* error caught there is replaced by a ReferenceError
GetMilestoneSuggestionsAs(st, u, g, llmWorks) ==
    [store |-> st,
     response |-> IF ~Found(st.goals, g) \/ ~llmWorks
                  THEN Fail("getMilestoneSuggestions", u, g, GoalOwner(st, g), "goal is not defined", 500)
                  ELSE Ok("getMilestoneSuggestions", u, g, GoalOwner(st, g))]

\* POST /roadmaps/milestones/:milestoneId/generate-tasks with taskCount 1
GenerateTasksForMilestoneAs(st, u, m) ==
    LET t == NextId(st.tasks, TaskIds) IN
    IF ~Found(st.milestones, m)
    THEN [store |-> st,
          response |-> Fail("generateTasksForMilestone", u, m, 0, "Milestone not found", 400)]
    ELSE IF MilestoneOwner(st, m) # u
    THEN [store |-> st,
          response |-> Fail("generateTasksForMilestone", u, m, MilestoneOwner(st, m), "Unauthorized", 400)]
    ELSE [store |-> [st EXCEPT !.tasks[t] = [row |-> "live",
                                             roadmapId |-> st.goals[st.milestones[m].goalId].roadmapId,
                                             milestoneId |-> m, taskId |-> 0]],
          response |-> Ok("generateTasksForMilestone", u, m, MilestoneOwner(st, m))]

\* POST /roadmaps/roadmap-tasks/:roadmapTaskId/convert: the task created is
\* recorded in the RoadmapTask row by its owner's id
ConvertRoadmapTaskToTaskAs(st, u, t) ==
    IF ~Found(st.tasks, t)
    THEN [store |-> st,
          response |-> Fail("convertRoadmapTaskToTask", u, t, 0, "Roadmap task not found", 400)]
    ELSE IF TaskOwner(st, t) # u
    THEN [store |-> st,
          response |-> Fail("convertRoadmapTaskToTask", u, t, TaskOwner(st, t), "Unauthorized", 400)]
    ELSE [store |-> [st EXCEPT !.tasks[t].taskId = u],
          response |-> Ok("convertRoadmapTaskToTask", u, t, TaskOwner(st, t))]

\* The store two users have built: goals 1..k, goal g in roadmap OwnerHome(g);
\* milestones 1..j, milestone m in goal m; roadmap tasks 1..n, task t of
\* milestone t.  The rollups are current.
OwnerHome(g) == ((g - 1) % Cardinality(Users)) + 1

OwnerMilestones(j) ==
    [m \in MilestoneIds |-> IF m <= j THEN [row |-> "live", goalId |-> m, status |-> "not_started"]
                            ELSE NoMilestone]
OwnerGoals(k) ==
    [g \in GoalIds |-> IF g <= k THEN [row |-> "live", roadmapId |-> OwnerHome(g),
                                       status |-> "not_started", completionPercentage |-> 0]
                       ELSE NoGoal]
OwnerTasks(n) ==
    [t \in TaskIds |-> IF t <= n THEN [row |-> "live", roadmapId |-> OwnerHome(t),
                                       milestoneId |-> t, taskId |-> 0]
                       ELSE NoTask]

InitOwner ==
    /\ roadmaps = [r \in Users |-> [row |-> "live", userId |-> r, progressPercentage |-> 0]]
    /\ \E k \in 0..MaxGoals :
         \E j \in {x \in 0..MaxMilestones : x <= k} :
           \E n \in {x \in 0..MaxTasks : x <= j} :
              /\ goals = OwnerGoals(k)
              /\ milestones = OwnerMilestones(j)
              /\ tasks = OwnerTasks(n)
    /\ lastOp = NoRollup
    /\ reqs = [q \in Requests |-> IdleRequest]
    /\ now = 0 /\ completions = <<>> /\ velocity = NoReport

\* the handler's writes and its response
Answer(res) ==
    /\ roadmaps' = res.store.roadmaps
    /\ goals' = res.store.goals
    /\ milestones' = res.store.milestones
    /\ tasks' = res.store.tasks
    /\ velocity' = res.response
    /\ UNCHANGED <<lastOp, reqs, now, completions>>

NextOwner ==
    \E u \in Users :
        \/ \E r \in Named(roadmaps) : Answer(GetRoadmapByIdAs(Store, u, r))
        \/ \E r \in Named(roadmaps) : Answer(DeleteRoadmapAs(Store, u, r))
        \/ \E r \in Named(roadmaps) : Answer(GetRoadmapStatsAs(Store, u, r))
        \/ \E g \in Named(goals) : Answer(GetGoalByIdAs(Store, u, g))
        \/ \E r \in Named(roadmaps) :
              /\ Found(roadmaps, r) => NextId(goals, GoalIds) # 0
              /\ Answer(CreateGoalAs(Store, u, r))
        \/ \E g \in Named(goals), b \in BodyGoalStatus : Answer(UpdateGoalAs(Store, u, g, b))
        \/ \E g \in Named(goals) : Answer(DeleteGoalAs(Store, u, g))
        \/ \E m \in Named(milestones) : Answer(CompleteMilestoneAs(Store, u, m))
        \/ \E r \in Named(roadmaps) : Answer(GetPredictionAs(Store, u, r))
        \/ \E g \in Named(goals), w \in BOOLEAN : Answer(GetMilestoneSuggestionsAs(Store, u, g, w))
        \/ \E m \in Named(milestones) :
              /\ MilestoneOwner(Store, m) = u => NextId(tasks, TaskIds) # 0
              /\ Answer(GenerateTasksForMilestoneAs(Store, u, m))
        \/ \E t \in Named(tasks) : Answer(ConvertRoadmapTaskToTaskAs(Store, u, t))

SpecOwner == InitOwner /\ [][NextOwner]_vars

\* ------------------------------------------------- aiCoaching.service.js
\* The weekly coaching over the analytics values its texts depend on.  A
\* number interpolated into a text is written N.
RECURSIVE Join(_, _)
\* list.join(sep)
Join(list, sep) ==
    IF list = <<>> THEN ""
    ELSE IF Len(list) = 1 THEN list[1]
    ELSE list[1] \o sep \o Join(Tail(list), sep)

\* list, with item pushed when test holds
PushIf(list, test, item) == IF test THEN Append(list, item) ELSE list

GenerateHighlights(vel, streak) ==
    LET a == PushIf(<<>>, vel.totals.tasksCompleted > 20,
                    "Great work! You completed N tasks in the last 30 days.")
        b == IF streak.currentStreak >= 7
             THEN Append(a, "You're on fire with a N-day streak!")
             ELSE PushIf(a, streak.currentStreak >= 3,
                         "Keep it up! You have a N-day streak going.")
        c == PushIf(b, vel.trend = "increasing",
                    "Your productivity is trending upward - momentum is building!")
        d == PushIf(c, Len(c) = 0,
                    "You're working on your roadmap. Every step forward counts!")
    IN Join(d, " ")

\* the insights before the default is added
InsightsFound(vel, bottle) ==
    LET a == PushIf(<<>>, QuotLt(vel.averages.tasksPerWeek, Quot(3, 1)) /\ vel.totals.tasksCompleted > 0,
                    "You're completing about N tasks per week. Consider increasing your pace to maintain momentum.")
        b == PushIf(a, bottle.summary.totalOverdue > 0,
                    "You have N overdue milestones. Addressing these should be a priority.")
        c == PushIf(b, bottle.strugglingGoals > 0,
                    "N goals are showing low progress. These may need more attention or timeline adjustment.")
    IN PushIf(c, vel.trend = "decreasing",
              "Your task completion rate has decreased recently. Consider reviewing your schedule and priorities.")

GenerateInsightsNoDefault(vel, bottle) == InsightsFound(vel, bottle)
GenerateInsights(vel, bottle) ==
    PushIf(InsightsFound(vel, bottle), Len(InsightsFound(vel, bottle)) = 0,
           "Your progress is steady. Keep maintaining your current approach.")

GenerateRecommendations(bottle, vel) ==
    LET a == PushIf(<<>>, bottle.summary.totalOverdue > 0,
                    "Review overdue milestones and either reschedule them or break them into smaller tasks.")
        b == PushIf(a, bottle.strugglingGoals > 0, "Focus on N (N) - it needs attention.")
        c == PushIf(b, QuotLt(vel.averages.tasksPerWeek, Quot(2, 1)),
                    "Try to complete at least 3-5 tasks per week to build momentum.")
        d == PushIf(c, bottle.underperformingCategories > 0,
                    "Dedicate more time to your N goals this week.")
    IN IF Len(d) = 0
       THEN << "Continue your current pace and stay consistent.",
               "Review your roadmap weekly to stay aligned with your vision." >>
       ELSE d

GenerateMotivation(streak, vel) ==
    IF streak.currentStreak >= 7
    THEN "You're building incredible momentum! Consistency is the key to achieving your 5-year vision. Keep going!"
    ELSE IF vel.trend = "increasing"
    THEN "Your upward trend shows you're finding your rhythm. Trust the process and keep pushing forward!"
    ELSE IF vel.totals.tasksCompleted > 0
    THEN "Every task completed is a step closer to your dreams. You've got this!"
    ELSE "Getting started is the hardest part, but you're here and ready. Take it one task at a time!"

\* coaching.analytics
CoachingAnalytics(vel, bottle, streak) ==
    [velocityTrend |-> vel.trend,
     tasksPerWeek |-> vel.averages.tasksPerWeek,
     currentStreak |-> streak.currentStreak,
     bottleneckSeverity |-> bottle.summary.severity,
     overdueCount |-> bottle.summary.totalOverdue]

\* generateFallbackCoaching(userId) at instant t, the analytics services
\* answering vel, bottle and streak
GenerateFallbackCoaching(t, vel, bottle, streak) ==
    [type |-> "weekly_coaching",
     generatedAt |-> t,
     highlights |-> GenerateHighlights(vel, streak),
     insights |-> GenerateInsights(vel, bottle),
     recommendations |-> GenerateRecommendations(bottle, vel),
     motivation |-> GenerateMotivation(streak, vel),
     analytics |-> CoachingAnalytics(vel, bottle, streak)]

\* parseLLMCoachingResponse: the sections found in the text, each empty when
\* the text has no such heading
LLMSections ==
    {[highlights |-> "", insights |-> <<>>, recommendations |-> <<>>, motivation |-> ""],
     [highlights |-> "highlights", insights |-> <<"insight">>,
      recommendations |-> <<"recommendation">>, motivation |-> "motivation"]}

\* what callLLM does: it throws, or resolves with a text of these sections
LLMOutcomes == {[thrown |-> TRUE]} \cup {[thrown |-> FALSE, sections |-> x] : x \in LLMSections}

\* generateWeeklyCoaching(userId) at instant t
GenerateWeeklyCoaching(t, vel, bottle, streak, llm) ==
    IF llm.thrown
    THEN GenerateFallbackCoaching(t, vel, bottle, streak)
    ELSE [type |-> "weekly_coaching",
          generatedAt |-> t,
          highlights |-> llm.sections.highlights,
          insights |-> llm.sections.insights,
          recommendations |-> llm.sections.recommendations,
          motivation |-> llm.sections.motivation,
          analytics |-> CoachingAnalytics(vel, bottle, streak)]

\* the analytics values on both sides of every threshold of the texts
CoachVelocities ==
    {[totals |-> [tasksCompleted |-> n], averages |-> [tasksPerWeek |-> w], trend |-> tr] :
        n \in {0, 1, 21},
        w \in {Quot(0, 1), Quot(2, 1), Quot(3, 1)},
        tr \in {"increasing", "decreasing", "stable"}}
CoachBottlenecks ==
    {[summary |-> [totalOverdue |-> o, severity |-> SeverityOf(o, g)],
      strugglingGoals |-> g, underperformingCategories |-> c] :
        o \in {0, 1, 6}, g \in {0, 1}, c \in {0, 1}}
CoachStreaks == {[currentStreak |-> k] : k \in {0, 2, 3, 6, 7}}

InitCoach ==
    /\ now \in DayEnds
    /\ roadmaps = [r \in RoadmapIds |-> NoRoadmap]
    /\ goals = [g \in GoalIds |-> NoGoal]
    /\ milestones = [m \in MilestoneIds |-> NoMilestone]
    /\ lastOp = NoRollup
    /\ reqs = [q \in Requests |-> IdleRequest]
    /\ tasks = <<>> /\ completions = <<>> /\ velocity = NoReport

\* generateWeeklyCoaching up to its call of callLLM: the analytics services
\* have answered.  Coaching requests share no writes, so one is followed.
GatherAnalytics(q) ==
    /\ \A p \in Requests : reqs[p].pc = "idle"
    /\ \E vel \in CoachVelocities, bottle \in CoachBottlenecks, streak \in CoachStreaks :
          reqs' = [reqs EXCEPT ![q] = [pc |-> "callLLM", velocity |-> vel,
                                      bottlenecks |-> bottle, streak |-> streak]]
    /\ UNCHANGED <<storeVars, lastOp, velVars>>

\* the rest of generateWeeklyCoaching: the response keeps how callLLM ended
\* next to the object returned (on the LLM path a copy of it is saved as a
\* CoachingInsight row, a table outside this model)
WeeklyCoaching(q, llm) ==
    /\ reqs[q].pc = "callLLM"
    /\ velocity' = [kind |-> "coaching", llmThrown |-> llm.thrown,
                    coaching |-> GenerateWeeklyCoaching(now, reqs[q].velocity, reqs[q].bottlenecks,
                                                        reqs[q].streak, llm)]
    /\ reqs' = [reqs EXCEPT ![q].pc = "done"]
    /\ UNCHANGED <<storeVars, lastOp, now, tasks, completions>>

NextCoach ==
    \/ \E q \in Requests : GatherAnalytics(q)
    \/ \E q \in Requests, llm \in LLMOutcomes : WeeklyCoaching(q, llm)

SpecCoach == InitCoach /\ [][NextCoach]_vars

\* ------------------------------------------------- batch jobs over users
\* generateDailyTasksForAllUsers, sendDailyRemindersToAllUsers and
\* sendWeeklyCoachingToAll, one user per step.  What is done for one user is
\* taken by its outcome: it returns a result or it throws; the rows and
\* messages it produces are not followed here.  A job's locals are kept in
\* its request, with the set of users whose processing failed.
MaxUsers == 3
BatchJobs == {"generateDailyTasks", "sendDailyReminders", "sendWeeklyCoaching"}

\* prisma.user.findMany(...): n eligible users, in the order returned
EligibleUsers(n) == [i \in 1..n |-> i]

\* results.push({ userId, error: error.message }) in the catch of one user
RecordFailureDropped(results, u, message) == results
RecordFailure(results, u, message) == Append(results, [userId |-> u, error |-> message])

\* { userId: user.id, ...result }
Spread(u, result) == result @@ [userId |-> u]

\* the start of a job: the users found, no result yet
StartBatch(q, job, n) ==
    /\ \A p \in Requests : reqs[p].pc = "idle"
    /\ reqs' = [reqs EXCEPT ![q] =
                   [pc |-> "loop", job |-> job, users |-> EligibleUsers(n), next |-> 1,
                    failing |-> {},
                    results |-> IF job = "sendWeeklyCoaching"
                                THEN [total |-> n, sent |-> 0, skipped |-> 0, failed |-> 0]
                                ELSE <<>>]]
    /\ UNCHANGED <<storeVars, lastOp, velVars>>

InLoop(q, job) ==
    /\ reqs[q].pc = "loop"
    /\ reqs[q].job = job
    /\ reqs[q].next <= Len(reqs[q].users)

\* getMilestonesNeedingTasks and generateTasksForMilestone for one user: m
\* milestones, three tasks each, or an error thrown on the way
DailyTasksOutcomes ==
    {[thrown |-> TRUE]} \cup {[thrown |-> FALSE, milestones |-> m] : m \in 0..1}

\* one turn of the loop of generateDailyTasksForAllUsers
GenerateDailyTasksForUser(q, outcome) ==
    LET u == reqs[q].users[reqs[q].next] IN
    /\ InLoop(q, "generateDailyTasks")
    /\ reqs' = [reqs EXCEPT
                   ![q].next = @ + 1,
                   ![q].failing = IF outcome.thrown THEN @ \cup {u} ELSE @,
                   ![q].results =
                       IF outcome.thrown
                       THEN RecordFailure(@, u, "error.message")
                       ELSE Append(@, [userId |-> u,
                                       milestonesProcessed |-> outcome.milestones,
                                       tasksGenerated |-> 3 * outcome.milestones])]
    /\ UNCHANGED <<storeVars, lastOp, velVars>>

\* sendDailyTaskReminder(user.id): a reminder sent, the user skipped, or an
\* error rethrown
DailyReminderOutcomes ==
    {[thrown |-> TRUE],
     [thrown |-> FALSE, result |-> [success |-> TRUE]],
     [thrown |-> FALSE, result |-> [skipped |-> TRUE]]}

\* one turn of the loop of sendDailyRemindersToAllUsers
SendDailyReminderToUser(q, outcome) ==
    LET u == reqs[q].users[reqs[q].next] IN
    /\ InLoop(q, "sendDailyReminders")
    /\ reqs' = [reqs EXCEPT
                   ![q].next = @ + 1,
                   ![q].failing = IF outcome.thrown THEN @ \cup {u} ELSE @,
                   ![q].results = IF outcome.thrown
                                  THEN RecordFailure(@, u, "error.message")
                                  ELSE Append(@, Spread(u, outcome.result))]
    /\ UNCHANGED <<storeVars, lastOp, velVars>>

\* sendWeeklyCoachingToUser(userId) catches every error: it returns
\* { success }, { skipped } or { failed }
WeeklyCoachingOutcomes == {"success", "skipped", "failed"}

\* one turn of the loop of sendWeeklyCoachingToAll
SendWeeklyCoachingToUser(q, outcome) ==
    LET u == reqs[q].users[reqs[q].next] IN
    /\ InLoop(q, "sendWeeklyCoaching")
    /\ reqs' = [reqs EXCEPT
                   ![q].next = @ + 1,
                   ![q].failing = IF outcome = "failed" THEN @ \cup {u} ELSE @,
                   ![q].results = IF outcome = "success" THEN [@ EXCEPT !.sent = @ + 1]
                                  ELSE IF outcome = "skipped" THEN [@ EXCEPT !.skipped = @ + 1]
                                  ELSE [@ EXCEPT !.failed = @ + 1]]
    /\ UNCHANGED <<storeVars, lastOp, velVars>>

\* results.filter((r) => r[field]).length
CountField(results, field) ==
    Cardinality({i \in 1..Len(results) : field \in DOMAIN results[i]})

\* what the job returns after the loop
BatchReturn(job, users, results) ==
    IF job = "generateDailyTasks"
    THEN [success |-> TRUE, usersProcessed |-> Len(users), results |-> results]
    ELSE IF job = "sendDailyReminders"
    THEN [success |-> TRUE, totalUsers |-> Len(users),
          sent |-> CountField(results, "success"),
          skipped |-> CountField(results, "skipped"),
          failed |-> CountField(results, "error"),
          results |-> results]
    ELSE results

\* the end of the loop: the job returns
FinishBatch(q) ==
    /\ reqs[q].pc = "loop"
    /\ reqs[q].next > Len(reqs[q].users)
    /\ velocity' = [kind |-> "batch", job |-> reqs[q].job, users |-> reqs[q].users,
                    failing |-> reqs[q].failing,
                    value |-> BatchReturn(reqs[q].job, reqs[q].users, reqs[q].results)]
    /\ reqs' = [reqs EXCEPT ![q] = IdleRequest]
    /\ UNCHANGED <<storeVars, lastOp, now, tasks, completions>>

NextBatch ==
    \E q \in Requests :
        \/ \E job \in BatchJobs, n \in 0..MaxUsers : StartBatch(q, job, n)
        \/ \E o \in DailyTasksOutcomes : GenerateDailyTasksForUser(q, o)
        \/ \E o \in DailyReminderOutcomes : SendDailyReminderToUser(q, o)
        \/ \E o \in WeeklyCoachingOutcomes : SendWeeklyCoachingToUser(q, o)
        \/ FinishBatch(q)

\* no job running
InitBatch ==
    /\ roadmaps = [r \in RoadmapIds |-> NoRoadmap]
    /\ goals = [g \in GoalIds |-> NoGoal]
    /\ milestones = [m \in MilestoneIds |-> NoMilestone]
    /\ lastOp = NoRollup
    /\ reqs = [q \in Requests |-> IdleRequest]
    /\ now = 0 /\ tasks = <<>> /\ completions = <<>> /\ velocity = NoReport

SpecBatch == InitBatch /\ [][NextBatch]_vars

\* ------------------------------------------- scheduled jobs on the store
\* dailyTaskGenerator.service.js and the overdue sweep of
\* roadmapNotification.service.js.  The store carries the status and userId
\* of a roadmap, the dueDate of a milestone, and the RoadmapTask rows in
\* tasks; lastOp records the job that ran last and what it returned.
BatchDaysAhead == 7
BatchTaskCount == 3

\* dayjs().add(d, 'days')
AddDays(t, d) == t + d * TicksPerDay

\* the roadmapTasks include of milestone m: status in pending, in_progress
OpenTasksOf(ts, m) ==
    Cardinality({i \in DOMAIN ts :
        ts[i].milestoneId = m /\ ts[i].status \in {"pending", "in_progress"}})

\* the where clause of getMilestonesNeedingTasks
InTaskWindow(rs, gs, ms, m, u, t, daysAhead, includeOverdue) ==
    /\ rs[MilestoneRoadmap(gs, ms, m)].userId = u
    /\ rs[MilestoneRoadmap(gs, ms, m)].status \in {"active", "draft"}
    /\ ms[m].status \in {"not_started", "in_progress", "overdue"}
    /\ ms[m].dueDate <= EndOfDay(AddDays(t, daysAhead))
    /\ includeOverdue \/ ms[m].dueDate >= StartOfDay(t)

\* the filter of getMilestonesNeedingTasks: no open task, or due within 7
\* days with fewer than 5 open tasks
NeedsTasks(ts, ms, m, t) ==
    \/ OpenTasksOf(ts, m) = 0
    \/ DiffDays(ms[m].dueDate, t) <= 7 /\ OpenTasksOf(ts, m) < 5

\* getMilestonesNeedingTasks(userId, { daysAhead, includeOverdue }) at instant t
GetMilestonesNeedingTasks(rs, gs, ms, ts, u, t, daysAhead, includeOverdue) ==
    SelectSeq(OrderByDueDate(ms, {m \in DOMAIN ms :
                  InTaskWindow(rs, gs, ms, m, u, t, daysAhead, includeOverdue)}),
              LAMBDA m : NeedsTasks(ts, ms, m, t))

\* generateTasksForMilestone(userId, milestoneId, { useLLM: false, taskCount }):
\* generateTasksRuleBased yields taskCount tasks, each created pending
GenerateTasksForMilestone(ts, gs, ms, m, taskCount) ==
    ts \o [i \in 1..taskCount |->
              [milestoneId |-> m, roadmapId |-> MilestoneRoadmap(gs, ms, m),
               status |-> "pending"]]

RECURSIVE GenerateForMilestones(_, _, _, _)
\* for (const milestone of milestones)
GenerateForMilestones(ts, gs, ms, list) ==
    IF list = <<>> THEN ts
    ELSE GenerateForMilestones(
             GenerateTasksForMilestone(ts, gs, ms, Head(list), BatchTaskCount),
             gs, ms, Tail(list))

\* users with some active roadmap
UsersWithActiveRoadmap(rs) ==
    {u \in Users : \E r \in DOMAIN rs : rs[r].userId = u /\ rs[r].status = "active"}

RECURSIVE GenerateForUsers(_, _, _, _, _, _)
\* for (const user of users), in the order of their ids
GenerateForUsers(ts, rs, gs, ms, t, S) ==
    IF S = {} THEN ts
    ELSE LET u == CHOOSE x \in S : \A y \in S : x <= y
         IN GenerateForUsers(
                GenerateForMilestones(ts, gs, ms,
                    GetMilestonesNeedingTasks(rs, gs, ms, ts, u, t, BatchDaysAhead, TRUE)),
                rs, gs, ms, t, S \ {u})

\* no job has run yet
NoJob == [job |-> "none"]

\* generateDailyTasksForAllUsers(), the body of both cron schedules
GenerateDailyTasksForAllUsers ==
    /\ tasks' = GenerateForUsers(tasks, roadmaps, goals, milestones, now,
                                 UsersWithActiveRoadmap(roadmaps))
    /\ lastOp' = [job |-> "generateDailyTasks",
                  usersProcessed |-> Cardinality(UsersWithActiveRoadmap(roadmaps)),
                  tasksGenerated |-> Len(tasks') - Len(tasks)]
    /\ UNCHANGED <<storeVars, reqs, now, completions, velocity>>

\* the findMany of checkOverdueMilestones
SweepQuery(rs, gs, ms, t) ==
    {m \in DOMAIN ms :
        /\ ms[m].dueDate < StartOfDay(t)
        /\ ms[m].status \in {"not_started", "in_progress"}
        /\ rs[MilestoneRoadmap(gs, ms, m)].status = "active"}

\* checkOverdueMilestones(), the 09:00 cron job; failed are the milestones
\* whose prisma.milestone.update throws
CheckOverdueMilestones(failed) ==
    LET overdueMilestones == SweepQuery(roadmaps, goals, milestones, now)
    IN /\ failed \subseteq overdueMilestones
       /\ milestones' = [m \in DOMAIN milestones |->
                            IF m \in overdueMilestones \ failed
                            THEN [milestones[m] EXCEPT !.status = "overdue"]
                            ELSE milestones[m]]
       /\ lastOp' = [job |-> "checkOverdueMilestones",
                     totalOverdue |-> Cardinality(overdueMilestones),
                     failed |-> failed]
       /\ UNCHANGED <<roadmaps, goals, reqs, velVars>>

\* The store of the jobs, as earlier requests left it: roadmap 1 of user 1
\* is active, roadmap 2 of user 1 is a draft or paused, roadmap 3 of user 2
\* is active or paused; goal g lies in roadmap g and milestone m in goal m.
JobRoadmapStatuses == <<{"active"}, {"draft", "paused"}, {"active", "paused"}>>
\* milestone 1 is due yesterday, today, in 3 days or in 10 days; the others
\* yesterday or in 3 days
JobDueDates == <<{0 - 1, 0, AddDays(0, 3), AddDays(0, 10)},
                 {0 - 1, AddDays(0, 3)}, {0 - 1, AddDays(0, 3)}>>
JobMilestoneStatuses == {"not_started", "in_progress", "completed"}

InitJobs ==
    /\ now \in DayEnds
    /\ \E s2 \in JobRoadmapStatuses[2], s3 \in JobRoadmapStatuses[3] :
          roadmaps = << [row |-> "live", userId |-> 1, status |-> "active", progressPercentage |-> 0],
                        [row |-> "live", userId |-> 1, status |-> s2, progressPercentage |-> 0],
                        [row |-> "live", userId |-> 2, status |-> s3, progressPercentage |-> 0] >>
    /\ \E st \in [1..3 -> JobMilestoneStatuses], due \in [1..3 -> UNION {JobDueDates[m] : m \in 1..3}] :
          /\ \A m \in 1..3 : due[m] \in JobDueDates[m]
          /\ milestones = [m \in 1..3 |-> [row |-> "live", goalId |-> m,
                                            status |-> st[m], dueDate |-> due[m]]]
          /\ goals = [g \in 1..3 |->
                        LET data == ProgressData(IF st[g] = "completed" THEN 1 ELSE 0, 1)
                        IN [row |-> "live", roadmapId |-> g, status |-> data.status,
                            completionPercentage |-> data.completionPercentage]]
    /\ tasks = <<>> /\ completions = <<>> /\ velocity = NoReport
    /\ lastOp = NoJob
    /\ reqs = [q \in Requests |-> IdleRequest]

NextJobs ==
    \/ GenerateDailyTasksForAllUsers
    \/ \E failed \in SUBSET (DOMAIN milestones) : CheckOverdueMilestones(failed)
    \/ \E u \in Users : CoachingBottlenecks(u, <<>>)

SpecJobs == InitJobs /\ [][NextJobs]_vars

\* ------------------------------------------------------ llm.service.js
\* One call of callLLM, stepping from await to await.  lastOp holds the
\* module's llmClient (whether it is set) and whether the environment names
\* a provider with an API key; reqs holds the locals of the call: the
\* attempts made so far with their outcomes, and the delays waited.
MaxRetries == 4
DefaultRetries == 3

\* what llmClient.chat.completions.create can throw
LLMErrors == {"timeout", "rate_limit"}

RECURSIVE Pow(_, _)
\* Math.pow(b, n)
Pow(b, n) == IF n = 0 THEN 1 ELSE b * Pow(b, n - 1)

BackoffDelayFlat(attempt) == 1000
\* Math.pow(2, attempt - 1) * 1000
BackoffDelay(attempt) == Pow(2, attempt - 1) * 1000

NoCall == [pc |-> "idle", retries |-> 0, attempt |-> 0, outcomes |-> <<>>,
           delays |-> <<>>, error |-> ""]

InitLLM ==
    /\ lastOp \in {[llmClient |-> FALSE, configured |-> FALSE],
                   [llmClient |-> FALSE, configured |-> TRUE],
                   [llmClient |-> TRUE, configured |-> TRUE]}
    /\ reqs = NoCall
    /\ roadmaps = [r \in RoadmapIds |-> NoRoadmap]
    /\ goals = [g \in GoalIds |-> NoGoal]
    /\ milestones = [m \in MilestoneIds |-> NoMilestone]
    /\ now = 0 /\ tasks = <<>> /\ completions = <<>> /\ velocity = NoReport

\* initLLM(): the client, or null when no provider with a key is configured
InitLLMClient == lastOp.configured

\* the exit of the for loop: throw lastError, which reads lastError.message
\* first and so throws a TypeError when no attempt was made
ThrowLastError(call) ==
    [call EXCEPT !.pc = "thrown",
                 !.error = IF call.outcomes = <<>> THEN "TypeError"
                           ELSE call.outcomes[Len(call.outcomes)]]

\* callLLM({ prompt, retries }) up to its first await
CallLLM(retries) ==
    /\ reqs.pc = "idle"
    /\ lastOp' = [lastOp EXCEPT !.llmClient = lastOp.llmClient \/ InitLLMClient]
    /\ reqs' = IF ~lastOp'.llmClient
               THEN [reqs EXCEPT !.pc = "thrown", !.retries = retries,
                                 !.error = "LLM service not available. Please configure API key."]
               ELSE IF 1 <= retries
               THEN [reqs EXCEPT !.pc = "create", !.retries = retries, !.attempt = 1]
               ELSE ThrowLastError([reqs EXCEPT !.retries = retries, !.attempt = 1])
    /\ UNCHANGED <<storeVars, velVars>>

\* await llmClient.chat.completions.create(...) answers
CreateReturns ==
    /\ reqs.pc = "create"
    /\ reqs' = [reqs EXCEPT !.pc = "returned", !.outcomes = Append(@, "ok")]
    /\ UNCHANGED <<storeVars, lastOp, velVars>>

\* await llmClient.chat.completions.create(...) throws: the catch block
CreateThrows(error) ==
    /\ reqs.pc = "create"
    /\ LET failed == [reqs EXCEPT !.outcomes = Append(@, error)]
       IN reqs' = IF reqs.attempt < reqs.retries
                  THEN [failed EXCEPT !.pc = "backoff",
                                      !.delays = Append(@, BackoffDelay(reqs.attempt))]
                  ELSE ThrowLastError([failed EXCEPT !.attempt = @ + 1])
    /\ UNCHANGED <<storeVars, lastOp, velVars>>

\* the setTimeout of the backoff fires: attempt++ and the loop test
BackoffOver ==
    /\ reqs.pc = "backoff"
    /\ reqs' = IF reqs.attempt + 1 <= reqs.retries
               THEN [reqs EXCEPT !.pc = "create", !.attempt = @ + 1]
               ELSE ThrowLastError([reqs EXCEPT !.attempt = @ + 1])
    /\ UNCHANGED <<storeVars, lastOp, velVars>>

NextLLM ==
    \/ \E retries \in 0..MaxRetries : CallLLM(retries)
    \/ CreateReturns
    \/ \E error \in LLMErrors : CreateThrows(error)
    \/ BackoffOver

SpecLLM == InitLLM /\ [][NextLLM]_vars

\* a call of create answers or throws (the client is given a timeout), and
\* a timer fires
SpecLLMFair ==
    /\ SpecLLM
    /\ WF_vars(CreateReturns \/ \E error \in LLMErrors : CreateThrows(error))
    /\ WF_vars(BackoffOver)

\* ------------------------------------------------------------ properties
TotalCount(g) == Cardinality(MilestonesOf(milestones, g))
DoneCount(g) == Cardinality({m \in MilestoneIds :
                    Live(milestones, m) /\ milestones[m].goalId = g
                    /\ milestones[m].status = "completed"})

\* stored completionPercentage of g is (K/N)*100 for its current milestones,
\* and 0 when it has none
PercentageCurrent(g) ==
    IF TotalCount(g) = 0
    THEN goals[g].completionPercentage = 0
    ELSE goals[g].completionPercentage * TotalCount(g) = DoneCount(g) * 100 * PctScale

\* C1: when updateGoalProgress has just run on a goal with N milestones, K of
\* them completed, the goal stores completionPercentage (K/N)*100 and status
\* completed iff K = N, not_started iff K = 0, in_progress otherwise (N >= 1);
\* with N = 0 it stores 0 and not_started.
C1_GoalProgressFormula ==
    LET g == lastOp.goalId
        n == TotalCount(g)
        k == DoneCount(g)
    IN g # 0 =>
        /\ PercentageCurrent(g)
        /\ n = 0 => goals[g].status = "not_started"
        /\ n >= 1 =>
            /\ goals[g].status = "completed" <=> k = n
            /\ goals[g].status = "not_started" <=> k = 0
            /\ goals[g].status = "in_progress" <=> (0 < k /\ k < n)

\* a recompute has just stored in_progress for a goal with some, not all,
\* milestones completed
C1_Witness ==
    /\ lastOp.goalId # 0
    /\ 0 < DoneCount(lastOp.goalId)
    /\ DoneCount(lastOp.goalId) < TotalCount(lastOp.goalId)
    /\ goals[lastOp.goalId].status = "in_progress"

\* C2: after every controller operation has returned, each goal's stored
\* completionPercentage equals (completed / total) x 100 of its current
\* milestones, 0 when it has none.
C2_PercentageAlwaysCurrent == \A g \in GoalIds : Live(goals, g) => PercentageCurrent(g)

\* C3: once both concurrent requests have finished, the goal's stored
\* completionPercentage and status are what a single recompute over the final
\* milestone set would store.
C3_ConcurrentRecomputesConverge ==
    (\A q \in Requests : reqs[q].pc = "done") =>
        LET n == TotalCount(ConcGoal)
            k == DoneCount(ConcGoal)
        IN /\ PercentageCurrent(ConcGoal)
           /\ goals[ConcGoal].status =
                 IF n > 0 /\ k = n THEN "completed"
                 ELSE IF k > 0 THEN "in_progress" ELSE "not_started"

\* C4: when updateRoadmapProgress has just run, the roadmap stores the
\* unweighted mean of its goals' stored percentages, and 0 with no goals.
C4_RoadmapProgressIsMean ==
    LET r == lastOp.roadmapId
        S == GoalsOf(goals, r)
    IN r # 0 =>
        IF S = {} THEN roadmaps[r].progressPercentage = 0
        ELSE roadmaps[r].progressPercentage * Cardinality(S) = SumPct(goals, S)

\* a roadmap recompute has just averaged two goals with different percentages
C4_Witness ==
    /\ lastOp.roadmapId # 0
    /\ \E g, h \in GoalsOf(goals, lastOp.roadmapId) :
          goals[g].completionPercentage > goals[h].completionPercentage
    /\ roadmaps[lastOp.roadmapId].progressPercentage > 0

\* C5: a goal has stored status completed only if its stored
\* completionPercentage is exactly 100.
C5_CompletedOnlyAtHundred ==
    \A g \in GoalIds :
        (Live(goals, g) /\ goals[g].status = "completed")
            => goals[g].completionPercentage = 100 * PctScale

\* C6: a handler's updateGoalProgress sends the goal-completed notification
\* exactly when the goal's stored status before it was not completed and the
\* status it stores is completed.
C6_NotifyOnTransition ==
    [][lastOp'.goalId # 0 =>
          (lastOp'.notified <=>
              (goals[lastOp'.goalId].status # "completed"
               /\ goals'[lastOp'.goalId].status = "completed"))]_vars

\* a recompute has just sent the notification
C6_Witness == lastOp.goalId # 0 /\ lastOp.notified

\* C7: when a handler has just run updateGoalProgress on a goal and
\* updateRoadmapProgress on its roadmap, calling either a second time on the
\* unchanged milestones and goals leaves the stored completionPercentage,
\* status and progressPercentage as the first call stored them.
C7_Idempotent ==
    /\ lastOp.goalId # 0 =>
          UpdateGoalProgress(goals, milestones, lastOp.goalId).goals = goals
    /\ lastOp.roadmapId # 0 =>
          UpdateRoadmapProgress(roadmaps, goals, lastOp.roadmapId) = roadmaps

\* the first calls have just stored non-zero progress for a goal and its roadmap
C7_Witness ==
    /\ lastOp.goalId # 0
    /\ goals[lastOp.goalId].completionPercentage > 0
    /\ roadmaps[lastOp.roadmapId].progressPercentage > 0
    /\ Cardinality(GoalsOf(goals, lastOp.roadmapId)) > 1

\* C8: calculateVelocity never divides by zero: the bucket count, the
\* first-half size and the second-half size it divides by are all non-zero.
C8_NoZeroDenominator ==
    velocity.kind = "ok" => \A i \in 1..Len(velocity.divisors) : velocity.divisors[i] # 0

\* C9: the weekly buckets partition the window: the buckets' tasksCompleted
\* add up to totals.tasksCompleted, and their milestonesCompleted to
\* totals.milestonesCompleted.
C9_BucketsPartitionWindow ==
    velocity.kind = "ok" =>
        /\ SumField(velocity.weeklyBreakdown, "tasksCompleted") = velocity.totals.tasksCompleted
        /\ SumField(velocity.weeklyBreakdown, "milestonesCompleted")
              = velocity.totals.milestonesCompleted

\* C10: before rounding, tasksPerWeek, milestonesPerWeek and hoursPerWeek are
\* the window totals divided by the number of buckets, and tasksPerDay is
\* tasksPerWeek divided by 7.
C10_AveragesAreTotalsOverBuckets ==
    velocity.kind = "ok" =>
        LET n == Len(velocity.weeklyBreakdown) IN
        /\ QuotEq(velocity.exact.tasksPerWeek, Quot(velocity.totals.tasksCompleted, n))
        /\ QuotEq(velocity.exact.milestonesPerWeek,
                  Quot(velocity.totals.milestonesCompleted, n))
        /\ QuotEq(velocity.exact.hoursPerWeek, QuotDiv(velocity.totals.totalHours, n))
        /\ QuotEq(velocity.exact.tasksPerDay, QuotDiv(velocity.exact.tasksPerWeek, 7))

\* the bucket list in the order calculateVelocity built it, and the
\* tasksCompleted of its buckets from..to added up
BuiltBuckets == Reverse(velocity.weeklyBreakdown)
HalfSum(from, to) == SumField(SubSeq(BuiltBuckets, from, to), "tasksCompleted")

\* C11: the trend compares the mean tasksCompleted of the buckets after
\* position floor(n/2) of the bucket list with the mean of those before it:
\* increasing if the second-half mean is greater, decreasing if it is less,
\* stable otherwise (means compared by cross-multiplication).
C11_TrendBySplitHalves ==
    velocity.kind = "ok" =>
        LET n == Len(BuiltBuckets)
            h == n \div 2
            first == HalfSum(1, h) * (n - h)
            second == HalfSum(h + 1, n) * h
        IN velocity.trend = IF second > first THEN "increasing"
                            ELSE IF second < first THEN "decreasing"
                            ELSE "stable"

\* a report whose second half has the greater mean, labelled increasing
C11_Witness ==
    /\ velocity.kind = "ok"
    /\ Len(BuiltBuckets) >= 2
    /\ HalfSum(Len(BuiltBuckets) \div 2 + 1, Len(BuiltBuckets)) > 0
    /\ velocity.trend = "increasing"

\* C12: whenever the 30-day hoursPerWeek is 0, the prediction has confidence
\* low, predictedCompletionDate null and estimatedWeeks null, for any
\* remainingHours and any number of completed tasks, and the division by
\* hoursPerWeek was not evaluated.
C12_ZeroVelocityPrediction ==
    (velocity.kind = "prediction" /\ velocity.hoursPerWeek.num = 0) =>
        /\ velocity.confidence = "low"
        /\ velocity.predictedCompletionDate = Null
        /\ velocity.estimatedWeeks = Null
        /\ ~velocity.divided

\* a prediction for a user with completed tasks, all without duration, and
\* work remaining
C12_Witness ==
    /\ velocity.kind = "prediction"
    /\ velocity.hoursPerWeek.num = 0
    /\ velocity.dataPoints > 0
    /\ velocity.remainingHours > 0
    /\ velocity.estimatedWeeks = Null

\* the days with a completed task
ActiveDays == {DayOf(tasks[i].completedAt) : i \in 1..Len(tasks)}
\* the length of the unbroken run of days of A that ends on day d
RunEndingOn(A, d) ==
    d - MaxOf({e \in (d - Cardinality(A) - 1)..d : e \notin A})
\* some run of consecutive days of A has length n, and none is longer
LongestRunIs(A, n) ==
    /\ \A d \in A : RunEndingOn(A, d) <= n
    /\ A # {} => \E d \in A : RunEndingOn(A, d) = n
    /\ A = {} => n = 0

\* C13: currentStreak is the number of consecutive calendar days, counted
\* backward from today, that each have a completed roadmap task; it is 0
\* when today has none, whatever yesterday has.
C13_CurrentStreakFromToday ==
    velocity.kind = "streak" =>
        \A A \in {ActiveDays} : velocity.currentStreak = RunEndingOn(A, DayOf(now))

\* C14: longestStreak is the length of the longest run of consecutive
\* calendar days with a completed task and is never below currentStreak;
\* with no completed task the result is 0, 0 and a null lastActiveDate.
C14_LongestStreak ==
    velocity.kind = "streak" =>
        /\ velocity.longestStreak >= velocity.currentStreak
        /\ \A A \in {ActiveDays} : LongestRunIs(A, velocity.longestStreak)
        /\ tasks = <<>> =>
              /\ velocity.currentStreak = 0
              /\ velocity.longestStreak = 0
              /\ velocity.lastActiveDate = Null

\* a history with two runs, the longer one in the past, and a streak today
C14_Witness ==
    /\ velocity.kind = "streak"
    /\ velocity.currentStreak = 1
    /\ velocity.longestStreak = 2

\* the milestones of user u that are not_started or in_progress and due before now
OpenPastDue(u) ==
    {m \in DOMAIN milestones :
        /\ roadmaps[goals[milestones[m].goalId].roadmapId].userId = u
        /\ milestones[m].status \in {"not_started", "in_progress"}
        /\ milestones[m].dueDate < now}

\* C15: detectBottlenecks(userId) lists exactly the milestones of user userId
\* that are not_started or in_progress and due before now, each once, in
\* ascending order of dueDate, each with daysOverdue the whole number of days
\* from dueDate to now, never negative (1 for a milestone due one day ago).
C15_OverdueMilestones ==
    (velocity.kind = "bottlenecks" /\ velocity.userId \in Users) =>
        LET list == velocity.overdueMilestones IN
        /\ {list[i].milestoneId : i \in 1..Len(list)} = OpenPastDue(velocity.userId)
        /\ Len(list) = Cardinality(OpenPastDue(velocity.userId))
        /\ \A i \in 1..(Len(list) - 1) : list[i].dueDate <= list[i + 1].dueDate
        /\ \A i \in 1..Len(list) :
              /\ list[i].daysOverdue >= 0
              /\ list[i].daysOverdue * TicksPerDay <= now - list[i].dueDate
              /\ now - list[i].dueDate < (list[i].daysOverdue + 1) * TicksPerDay

\* a report listing several milestones, among them a not_started one due a
\* day ago with daysOverdue 1, while the store holds past-due milestones of
\* other statuses and of the other user
C15_Witness ==
    /\ velocity.kind = "bottlenecks"
    /\ velocity.userId \in Users
    /\ Len(velocity.overdueMilestones) >= 3
    /\ \E i \in 1..Len(velocity.overdueMilestones) :
          /\ velocity.overdueMilestones[i].daysOverdue = 1
          /\ milestones[velocity.overdueMilestones[i].milestoneId].status = "not_started"
          /\ velocity.overdueMilestones[i].dueDate = now - TicksPerDay

\* C16: severity is high iff more than 5 milestones are overdue or more than
\* 3 goals are struggling, otherwise medium iff more than 2 are overdue,
\* otherwise low, whatever the number of underperforming categories.
C16_Severity ==
    velocity.kind = "bottlenecks" =>
        LET overdue == velocity.summary.totalOverdue
            struggling == velocity.summary.strugglingGoalsCount
        IN /\ velocity.summary.severity = "high" <=> (overdue > 5 \/ struggling > 3)
           /\ velocity.summary.severity = "medium" <=>
                 (~(overdue > 5 \/ struggling > 3) /\ overdue > 2)
           /\ velocity.summary.severity = "low" <=>
                 (~(overdue > 5 \/ struggling > 3) /\ overdue <= 2)

\* high by the struggling goals alone, with underperforming categories and
\* few overdue milestones
C16_Witness ==
    /\ velocity.kind = "bottlenecks"
    /\ velocity.summary.severity = "high"
    /\ velocity.summary.totalOverdue <= 2
    /\ velocity.summary.strugglingGoalsCount = 4
    /\ velocity.summary.underperformingCategoriesCount > 0

\* C17: a request on a roadmap, goal, milestone or roadmap task succeeds only
\* when the requesting user owns the roadmap the entity belongs to.
C17_OwnerOnly ==
    (velocity.kind = "access" /\ velocity.ok /\ velocity.owner # 0) =>
        velocity.owner = velocity.userId

\* what operation op answers user u on an id that no entity has
NotFoundAnswer(op, u) ==
    IF op = "getRoadmapById" THEN GetRoadmapByIdAs(Store, u, 0).response
    ELSE IF op = "deleteRoadmap" THEN DeleteRoadmapAs(Store, u, 0).response
    ELSE IF op = "getMilestoneSuggestions" THEN GetMilestoneSuggestionsAs(Store, u, 0, FALSE).response
    ELSE IF op = "generateTasksForMilestone" THEN GenerateTasksForMilestoneAs(Store, u, 0).response
    ELSE ConvertRoadmapTaskToTaskAs(Store, u, 0).response

\* C18: the failure a user is answered on an id of another user's entity is
\* the failure the same operation answers on an id no entity has.
C18_NotOwnedAsNotFound ==
    (/\ velocity.kind = "access"
     /\ ~velocity.ok
     /\ velocity.owner \notin {0, velocity.userId}) =>
        /\ velocity.error = NotFoundAnswer(velocity.op, velocity.userId).error
        /\ velocity.status = NotFoundAnswer(velocity.op, velocity.userId).status

\* the fields of a weekly coaching object
CoachingFields ==
    {"type", "generatedAt", "highlights", "insights", "recommendations", "motivation",
     "analytics"}

\* C19: when callLLM throws, generateWeeklyCoaching returns the rule-based
\* coaching, with non-empty highlights, insights, recommendations and
\* motivation whatever the analytics values, and with the fields the LLM
\* path returns.
C19_FallbackCoaching ==
    velocity.kind = "coaching" =>
        /\ DOMAIN velocity.coaching = CoachingFields
        /\ velocity.llmThrown =>
              /\ velocity.coaching.highlights # ""
              /\ velocity.coaching.motivation # ""
              /\ velocity.coaching.insights # <<>>
              /\ \A i \in 1..Len(velocity.coaching.insights) : velocity.coaching.insights[i] # ""
              /\ velocity.coaching.recommendations # <<>>
              /\ \A i \in 1..Len(velocity.coaching.recommendations) :
                    velocity.coaching.recommendations[i] # ""

\* a fallback coaching made of the defaults alone: nothing overdue, nothing
\* struggling, a steady pace and no streak
C19_Witness ==
    /\ velocity.kind = "coaching"
    /\ velocity.llmThrown
    /\ velocity.coaching.analytics.overdueCount = 0
    /\ velocity.coaching.analytics.currentStreak = 0
    /\ velocity.coaching.analytics.velocityTrend = "stable"
    /\ Len(velocity.coaching.insights) = 1
    /\ Len(velocity.coaching.recommendations) = 2

C21_RerunCreatesNothing ==
    [][(lastOp.job = "generateDailyTasks" /\ lastOp'.job = "generateDailyTasks")
          => tasks' = tasks]_vars

\* C22: after a run of checkOverdueMilestones in which no update failed, no
\* milestone due before the start of today is still not_started or
\* in_progress, whatever its roadmap.
C22_SweepLeavesNoneOpen ==
    (lastOp.job = "checkOverdueMilestones" /\ lastOp.failed = {})
        => \A m \in DOMAIN milestones :
              milestones[m].dueDate < StartOfDay(now)
                  => milestones[m].status \notin {"not_started", "in_progress"}

\* C25: a past-due, uncompleted milestone stays in detectBottlenecks'
\* overdueMilestones after checkOverdueMilestones has processed it: across
\* a run of the sweep the totalOverdue reported for a user never drops.
C25_SweepKeepsOverdueCount ==
    [][lastOp'.job = "checkOverdueMilestones"
          => \A u \in Users :
                DetectBottlenecks(roadmaps', goals', milestones', u, now', <<>>).summary.totalOverdue
                    >= DetectBottlenecks(roadmaps, goals, milestones, u, now, <<>>).summary.totalOverdue]_vars

\* C23: an authenticated request to an analytics endpoint passes to the
\* analytics service the id that authenticate attached to the request: the
\* report a bottlenecks request of user u produces is computed for
\* Authenticate(u).id.
C23_ControllerPassesAuthenticatedId ==
    [][\A u \in Users, c \in CategoryStats :
          GetBottlenecks(u, c) => velocity'.userId = Authenticate(u).id]_vars

\* the buckets of the report, oldest week first, and the sum of a stretch
ChronoSum(from, to) ==
    SumField(SubSeq(velocity.weeklyBreakdown, from, to), "tasksCompleted")

\* C24: the trend is increasing only when the more recent half of the weekly
\* buckets has a strictly greater mean tasksCompleted than the earlier half,
\* and decreasing only when it has a strictly smaller one.
C24_TrendFollowsTime ==
    (velocity.kind = "ok" /\ Len(velocity.weeklyBreakdown) >= 2) =>
        LET n == Len(velocity.weeklyBreakdown)
            h == n \div 2
            earlier == ChronoSum(1, n - h) * h
            recent == ChronoSum(n - h + 1, n) * (n - h)
        IN /\ velocity.trend = "increasing" => recent > earlier
           /\ velocity.trend = "decreasing" => recent < earlier

\* the requests whose updateGoalProgress has written the goal row, and the
\* status each of them wrote
Written == {q \in Requests : reqs[q].pc \in {"getGoal", "findGoals", "updateRoadmap", "done"}}
WrittenStatus(q) == ProgressData(reqs[q].completed, reqs[q].total).status

\* C26: under every interleaving of concurrent updateGoalProgress calls on
\* one goal, no more goal-completed notifications are emitted than the goal
\* has changed from a non-completed status to completed.  Every request
\* writes the goal row once, so the goal has changed to completed at most as
\* often as completed was written, and at most once more than a
\* non-completed status was written.
C26_OneNotificationPerCompletion ==
    LET wroteCompleted == Cardinality({q \in Written : WrittenStatus(q) = "completed"})
        wroteOther == Cardinality({q \in Written : WrittenStatus(q) # "completed"})
        notifications == Cardinality({q \in Written : reqs[q].notified})
    IN /\ notifications <= wroteCompleted
       /\ notifications <= wroteOther + 1

\* C27: after any sequence of goal and milestone operations issued through
\* the controllers, each roadmap stores as progressPercentage the unweighted
\* mean of its goals' stored completionPercentage (0 with no goals), a
\* value within 0..100.
C27_RoadmapProgressAlwaysMean ==
    \A r \in RoadmapIds :
        Live(roadmaps, r) =>
            LET S == GoalsOf(goals, r)
            IN /\ IF S = {} THEN roadmaps[r].progressPercentage = 0
                  ELSE roadmaps[r].progressPercentage * Cardinality(S) = SumPct(goals, S)
               /\ roadmaps[r].progressPercentage \in 0..(100 * PctScale)

\* C28: when the text-generation call fails for a goal that exists,
\* suggestMilestones returns the fallback milestone list: the request for
\* milestone suggestions is answered with success, not with an error.
C28_FallbackMilestonesOnLLMFailure ==
    [][\A u \in Users, g \in Named(goals) :
          (Found(goals, g) /\ Answer(GetMilestoneSuggestionsAs(Store, u, g, FALSE)))
              => velocity'.ok]_vars

C30_CurrentStreakUncapped ==
    velocity.kind = "streak" =>
        \A A \in {ActiveDays} :
            /\ \A i \in 0..(velocity.currentStreak - 1) : DayOf(now) - i \in A
            /\ DayOf(now) - velocity.currentStreak \notin A

====
